---------------------------- MODULE Spec2Model ----------------------------
(***************************************************************************)
(* A model of the MAX30102 simulator: the bus-level peripheral             *)
(* (I2CProtocolSimulator), the register-level device (MAX30102Device) and  *)
(* the streaming TCP server (TCPServer).                                   *)
(*                                                                         *)
(* An object of a Python class is a record whose fields carry the names    *)
(* of the object's attributes; a method is an operator from the object's   *)
(* record (and the arguments) to the record after the call and the value   *)
(* returned.                                                               *)
(***************************************************************************)
EXTENDS Integers, Sequences, FiniteSets, TLC

(***************************************************************************)
(* Python's integer operators.  ">>" is floor division by a power of two,  *)
(* "&" with a non-negative mask reads the low bits of the two's complement *)
(* form, so both are defined for negative arguments too.                   *)
(***************************************************************************)
Min(a, b) == IF a <= b THEN a ELSE b

Max(a, b) == IF a >= b THEN a ELSE b

RECURSIVE Pow2(_)
Pow2(n) == IF n = 0 THEN 1 ELSE 2 * Pow2(n - 1)

Shr(a, n) == a \div Pow2(n)

RECURSIVE BitAndN(_, _)
BitAndN(a, b) ==
    IF a = 0 \/ b = 0 THEN 0
    ELSE ((a % 2) * (b % 2)) + 2 * BitAndN(a \div 2, b \div 2)

RECURSIVE BitOrN(_, _)
BitOrN(a, b) ==
    IF a = 0 THEN b
    ELSE IF b = 0 THEN a
    ELSE Max(a % 2, b % 2) + 2 * BitOrN(a \div 2, b \div 2)

\* a & m for any integer a and a mask 0 <= m < 2^24
And(a, m) == BitAndN(a % 16777216, m)

\* a | b for non-negative a, b
Or(a, b) == BitOrN(a, b)

\* a & ~m for a non-negative a and a mask m >= 0
AndNot(a, m) == a - BitAndN(a, m)

(***************************************************************************)
(* config/register_map.py is not among the source files: the addresses,    *)
(* the default table and the bit patterns below follow the specification   *)
(* (section 6), the uses in the code and the values the tests pin down     *)
(* (MODE_CONFIG defaults to MODE_SPO2, LED1_PA..PILOT_PA are consecutive,  *)
(* 0xFF is no register).                                                   *)
(***************************************************************************)
REG_INTR_STATUS_1 == 0

REG_FIFO_WR_PTR == 4

REG_OVF_COUNTER == 5

REG_FIFO_RD_PTR == 6

REG_FIFO_DATA == 7

REG_FIFO_CONFIG == 8

REG_MODE_CONFIG == 9

REG_SPO2_CONFIG == 10

REG_LED1_PA == 12

REG_LED2_PA == 13

REG_PILOT_PA == 14

MODE_SPO2 == 3

SPO2_SR_50 == 0

SPO2_SR_100 == 1

SPO2_SR_200 == 2

SPO2_SR_400 == 3

SPO2_SR_800 == 4

SPO2_SR_1000 == 5

SPO2_SR_1600 == 6

SPO2_SR_3200 == 7

DEFAULT_REGISTER_VALUES ==
    (REG_INTR_STATUS_1 :> 0) @@ (REG_FIFO_WR_PTR :> 0) @@ (REG_OVF_COUNTER :> 0)
    @@ (REG_FIFO_RD_PTR :> 0) @@ (REG_FIFO_DATA :> 0) @@ (REG_FIFO_CONFIG :> 0)
    @@ (REG_MODE_CONFIG :> MODE_SPO2) @@ (REG_SPO2_CONFIG :> 39)
    @@ (REG_LED1_PA :> 0) @@ (REG_LED2_PA :> 0) @@ (REG_PILOT_PA :> 0)

\* dict.get(key, default) on the sample-rate table
sample_rates_get(sr_bits, default) ==
    CASE sr_bits = SPO2_SR_50 -> 50
      [] sr_bits = SPO2_SR_100 -> 100
      [] sr_bits = SPO2_SR_200 -> 200
      [] sr_bits = SPO2_SR_400 -> 400
      [] sr_bits = SPO2_SR_800 -> 800
      [] sr_bits = SPO2_SR_1000 -> 1000
      [] sr_bits = SPO2_SR_1600 -> 1600
      [] sr_bits = SPO2_SR_3200 -> 3200
      [] OTHER -> default

\* averaging_map.get(average_bits, 1)
averaging_map_get(average_bits) ==
    CASE average_bits = 0 -> 1
      [] average_bits = 1 -> 2
      [] average_bits = 2 -> 4
      [] average_bits = 3 -> 8
      [] average_bits = 4 -> 16
      [] average_bits = 5 -> 32
      [] OTHER -> 1

\* An attribute that no statement has assigned yet (read through getattr).
UNSET == -1

(***************************************************************************)
(* Sample packing, shared by both classes: three bytes per 18-bit sample.  *)
(***************************************************************************)
\* sample_bytes keeping the whole byte above bit 15
sample_bytes_wide_msb(sample) ==
    << And(Shr(sample, 16), 255), And(Shr(sample, 8), 255), And(sample, 255) >>

sample_bytes(sample) ==
    << And(Shr(sample, 16), 3), And(Shr(sample, 8), 255), And(sample, 255) >>

pack_sample(red_sample, ir_sample) ==
    sample_bytes(red_sample) \o sample_bytes(ir_sample)

unpack_sample(sample_data) ==
    << Or(Or(sample_data[1] * 65536, sample_data[2] * 256), sample_data[3]),
       Or(Or(sample_data[4] * 65536, sample_data[5] * 256), sample_data[6]) >>

(***************************************************************************)
(* class I2CProtocolSimulator                                              *)
(***************************************************************************)
I2C_fifo_size == 32

I2C_init ==
    [ registers |-> [DEFAULT_REGISTER_VALUES EXCEPT
                        ![REG_MODE_CONFIG] = MODE_SPO2,
                        ![REG_SPO2_CONFIG] = 39],
      fifo_buffer |-> << >>,
      i2c_bus_available |-> TRUE,
      read_operations |-> 0,
      write_operations |-> 0,
      errors |-> 0,
      sample_rate |-> UNSET,
      averaging_samples |-> UNSET,
      fifo_rollover |-> UNSET ]

I2C_update_fifo_pointers(s) ==
    LET samples_in_fifo == Len(s.fifo_buffer)
        level == And(s.registers[REG_FIFO_CONFIG], 15)
        r1 == [s.registers EXCEPT
                 ![REG_FIFO_WR_PTR] = (samples_in_fifo * 6) % (I2C_fifo_size * 6)]
    IN  [s EXCEPT !.registers =
            [r1 EXCEPT ![REG_INTR_STATUS_1] =
                IF samples_in_fifo >= level
                THEN Or(r1[REG_INTR_STATUS_1], 16)
                ELSE AndNot(r1[REG_INTR_STATUS_1], 16)]]

I2C_handle_device_reset(s) ==
    [s EXCEPT !.registers = DEFAULT_REGISTER_VALUES,
              !.fifo_buffer = << >>,
              !.read_operations = 0,
              !.write_operations = 0,
              !.errors = 0]

I2C_handle_mode_config_write(s, value) ==
    IF And(value, 64) # 0
    THEN I2C_handle_device_reset(s)
    ELSE [s EXCEPT !.registers[REG_MODE_CONFIG] = And(value, 143)]

I2C_handle_fifo_config_write(s, value) ==
    [s EXCEPT !.registers[REG_FIFO_CONFIG] = And(value, 255),
              !.averaging_samples = averaging_map_get(And(Shr(value, 5), 7)),
              !.fifo_rollover = IF And(value, 16) # 0 THEN 1 ELSE 0]

\* _handle_spo2_config_write decoding two sample-rate bits instead of three
I2C_handle_spo2_config_write_two_bits(s, value) ==
    [s EXCEPT !.registers[REG_SPO2_CONFIG] = And(value, 252),
              !.sample_rate = sample_rates_get(And(Shr(value, 2), 3), 100)]

I2C_handle_spo2_config_write(s, value) ==
    [s EXCEPT !.registers[REG_SPO2_CONFIG] = And(value, 252),
              !.sample_rate = sample_rates_get(And(Shr(value, 2), 7), 100)]

I2C_handle_fifo_write_pointer(s, value) ==
    [s EXCEPT !.registers[REG_FIFO_WR_PTR] = value % (I2C_fifo_size * 6)]

I2C_handle_fifo_read_pointer(s, value) ==
    [s EXCEPT !.registers[REG_FIFO_RD_PTR] = value % (I2C_fifo_size * 6)]

\* _handle_fifo_data_read advancing the read pointer without "% 192"
I2C_handle_fifo_data_read_no_wrap(s) ==
    LET rd_ptr == s.registers[REG_FIFO_RD_PTR]
        wr_ptr == s.registers[REG_FIFO_WR_PTR]
        sample_index == (rd_ptr \div 6) % I2C_fifo_size
        byte_index == rd_ptr % 6
    IN  IF s.fifo_buffer = << >> THEN [s |-> s, value |-> 0]
        ELSE IF rd_ptr = wr_ptr /\ s.registers[REG_OVF_COUNTER] = 0
        THEN [s |-> s, value |-> 0]
        ELSE IF sample_index < Len(s.fifo_buffer)
        THEN [s |-> [s EXCEPT !.registers[REG_FIFO_RD_PTR] = rd_ptr + 1],
              value |-> s.fifo_buffer[sample_index + 1][byte_index + 1]]
        ELSE [s |-> s, value |-> 0]

\* the object after the call and the byte returned
I2C_handle_fifo_data_read(s) ==
    LET rd_ptr == s.registers[REG_FIFO_RD_PTR]
        wr_ptr == s.registers[REG_FIFO_WR_PTR]
        sample_index == (rd_ptr \div 6) % I2C_fifo_size
        byte_index == rd_ptr % 6
    IN  IF s.fifo_buffer = << >> THEN [s |-> s, value |-> 0]
        ELSE IF rd_ptr = wr_ptr /\ s.registers[REG_OVF_COUNTER] = 0
        THEN [s |-> s, value |-> 0]
        ELSE IF sample_index < Len(s.fifo_buffer)
        THEN [s |-> [s EXCEPT !.registers[REG_FIFO_RD_PTR] =
                                 (rd_ptr + 1) % (I2C_fifo_size * 6)],
              value |-> s.fifo_buffer[sample_index + 1][byte_index + 1]]
        ELSE [s |-> s, value |-> 0]

I2C_handle_interrupt_status_read(s) ==
    [s |-> [s EXCEPT !.registers[REG_INTR_STATUS_1] = 0],
     value |-> s.registers[REG_INTR_STATUS_1]]

\* I2C_write_register without the bus-availability check
I2C_write_register_no_bus_check(s, register, value) ==
    IF register \notin DOMAIN s.registers
    THEN [s |-> [s EXCEPT !.errors = @ + 1], ok |-> FALSE]
    ELSE [s |-> [s EXCEPT !.registers[register] = And(value, 255),
                          !.write_operations = @ + 1],
          ok |-> TRUE]

\* the object after the call, the status returned
I2C_write_register(s, register, value) ==
    IF ~s.i2c_bus_available
    THEN [s |-> [s EXCEPT !.errors = @ + 1], ok |-> FALSE]
    ELSE IF register \notin DOMAIN s.registers
    THEN [s |-> [s EXCEPT !.errors = @ + 1], ok |-> FALSE]
    ELSE LET t == CASE register = REG_MODE_CONFIG ->
                          I2C_handle_mode_config_write(s, value)
                    [] register = REG_FIFO_CONFIG ->
                          I2C_handle_fifo_config_write(s, value)
                    [] register = REG_FIFO_WR_PTR ->
                          I2C_handle_fifo_write_pointer(s, value)
                    [] register = REG_FIFO_RD_PTR ->
                          I2C_handle_fifo_read_pointer(s, value)
                    [] register = REG_SPO2_CONFIG ->
                          I2C_handle_spo2_config_write(s, value)
                    [] OTHER ->
                          [s EXCEPT !.registers[register] = And(value, 255)]
         IN  [s |-> [t EXCEPT !.write_operations = @ + 1], ok |-> TRUE]

\* the object after the call, whether a value was returned (None: FALSE), the value
I2C_read_register(s, register) ==
    IF ~s.i2c_bus_available
    THEN [s |-> [s EXCEPT !.errors = @ + 1], ok |-> FALSE, value |-> 0]
    ELSE IF register \notin DOMAIN s.registers
    THEN [s |-> [s EXCEPT !.errors = @ + 1], ok |-> FALSE, value |-> 0]
    ELSE LET r == CASE register = REG_FIFO_DATA -> I2C_handle_fifo_data_read(s)
                    [] register = REG_INTR_STATUS_1 ->
                          I2C_handle_interrupt_status_read(s)
                    [] OTHER -> [s |-> s, value |-> s.registers[register]]
         IN  [s |-> [r.s EXCEPT !.read_operations = @ + 1],
              ok |-> TRUE, value |-> r.value]

\* the loop of read_registers_burst from index i on
RECURSIVE I2C_burst_read_loop(_, _, _, _, _)
I2C_burst_read_loop(s, start_register, count, i, values) ==
    IF i >= count THEN [s |-> s, values |-> values]
    ELSE LET register == start_register + i
         IN  IF register \in DOMAIN s.registers
             THEN LET r == IF register = REG_FIFO_DATA
                           THEN I2C_handle_fifo_data_read(s)
                           ELSE [s |-> s, value |-> s.registers[register]]
                  IN  I2C_burst_read_loop(r.s, start_register, count, i + 1,
                                          Append(values, r.value))
             ELSE I2C_burst_read_loop(s, start_register, count, i + 1,
                                      Append(values, 0))

\* read_registers_burst leaving read_operations as it was
I2C_read_registers_burst_uncounted(s, start_register, count) ==
    IF ~s.i2c_bus_available
    THEN [s |-> [s EXCEPT !.errors = @ + 1], ok |-> FALSE, values |-> << >>]
    ELSE LET r == I2C_burst_read_loop(s, start_register, count, 0, << >>)
         IN  [s |-> r.s, ok |-> TRUE, values |-> r.values]

I2C_read_registers_burst(s, start_register, count) ==
    IF ~s.i2c_bus_available
    THEN [s |-> [s EXCEPT !.errors = @ + 1], ok |-> FALSE, values |-> << >>]
    ELSE LET r == I2C_burst_read_loop(s, start_register, count, 0, << >>)
         IN  [s |-> [r.s EXCEPT !.read_operations = @ + 1],
              ok |-> TRUE, values |-> r.values]

\* the loop of write_registers_burst without the membership test: the
\* assignment creates the cell that the register file does not have
RECURSIVE I2C_burst_write_loop_creates_cells(_, _, _, _)
I2C_burst_write_loop_creates_cells(s, start_register, values, i) ==
    IF i >= Len(values) THEN s
    ELSE I2C_burst_write_loop_creates_cells(
             [s EXCEPT !.registers =
                 ((start_register + i) :> And(values[i + 1], 255)) @@ @],
             start_register, values, i + 1)

\* the loop of write_registers_burst storing each value without "& 0xFF"
RECURSIVE I2C_burst_write_loop_unmasked(_, _, _, _)
I2C_burst_write_loop_unmasked(s, start_register, values, i) ==
    IF i >= Len(values) THEN s
    ELSE LET register == start_register + i
             value == values[i + 1]
         IN  IF register \in DOMAIN s.registers
             THEN LET s1 == [s EXCEPT !.registers[register] = value]
                      s2 == CASE register = REG_MODE_CONFIG ->
                                    I2C_handle_mode_config_write(s1, value)
                              [] register = REG_FIFO_CONFIG ->
                                    I2C_handle_fifo_config_write(s1, value)
                              [] OTHER -> s1
                  IN  I2C_burst_write_loop_unmasked(s2, start_register, values,
                                                    i + 1)
             ELSE I2C_burst_write_loop_unmasked(s, start_register, values, i + 1)

\* the loop of write_registers_burst from index i (0-based) on
RECURSIVE I2C_burst_write_loop(_, _, _, _)
I2C_burst_write_loop(s, start_register, values, i) ==
    IF i >= Len(values) THEN s
    ELSE LET register == start_register + i
             value == values[i + 1]
         IN  IF register \in DOMAIN s.registers
             THEN LET s1 == [s EXCEPT !.registers[register] = And(value, 255)]
                      s2 == CASE register = REG_MODE_CONFIG ->
                                    I2C_handle_mode_config_write(s1, value)
                              [] register = REG_FIFO_CONFIG ->
                                    I2C_handle_fifo_config_write(s1, value)
                              [] OTHER -> s1
                  IN  I2C_burst_write_loop(s2, start_register, values, i + 1)
             ELSE I2C_burst_write_loop(s, start_register, values, i + 1)

I2C_write_registers_burst(s, start_register, values) ==
    IF ~s.i2c_bus_available
    THEN [s |-> [s EXCEPT !.errors = @ + 1], ok |-> FALSE]
    ELSE LET t == I2C_burst_write_loop(s, start_register, values, 0)
         IN  [s |-> [t EXCEPT !.write_operations = @ + 1], ok |-> TRUE]

\* the overflow branch counting the overflow but keeping the oldest sample
I2C_push_overflow_no_eviction(s) ==
    IF Len(s.fifo_buffer) >= I2C_fifo_size
    THEN [s EXCEPT !.registers[REG_OVF_COUNTER] = And(@ + 1, 31)]
    ELSE s

\* the overflow branch with a counter that saturates at 31 instead of wrapping
I2C_push_overflow_saturating(s) ==
    IF Len(s.fifo_buffer) >= I2C_fifo_size
    THEN [s EXCEPT !.registers[REG_OVF_COUNTER] = Min(@ + 1, 31),
                   !.fifo_buffer = IF s.fifo_buffer # << >> THEN Tail(@) ELSE @]
    ELSE s

\* lines 245-249: the overflow branch of push_sample_to_fifo
I2C_push_overflow(s) ==
    IF Len(s.fifo_buffer) >= I2C_fifo_size
    THEN [s EXCEPT !.registers[REG_OVF_COUNTER] = And(@ + 1, 31),
                   !.fifo_buffer = IF s.fifo_buffer # << >> THEN Tail(@) ELSE @]
    ELSE s

I2C_push_sample_to_fifo(s, red_sample, ir_sample) ==
    LET sample_data == pack_sample(red_sample, ir_sample)
        s1 == I2C_push_overflow(s)
        s2 == [s1 EXCEPT !.fifo_buffer = Append(@, sample_data)]
        s3 == I2C_update_fifo_pointers(s2)
    IN  IF Len(s3.fifo_buffer) > 0
        THEN [s3 EXCEPT !.registers[REG_INTR_STATUS_1] = Or(@, 16)]
        ELSE s3

\* the loop of read_fifo_samples with n iterations left
RECURSIVE I2C_read_fifo_loop(_, _, _)
I2C_read_fifo_loop(s, n, samples) ==
    IF n <= 0 THEN [s |-> s, samples |-> samples]
    ELSE IF s.fifo_buffer # << >>
    THEN I2C_read_fifo_loop([s EXCEPT !.fifo_buffer = Tail(@)], n - 1,
                            Append(samples, unpack_sample(Head(s.fifo_buffer))))
    ELSE I2C_read_fifo_loop(s, n - 1, samples)

\* read_fifo_samples popping the newest sample (pop()) instead of the oldest
RECURSIVE I2C_read_fifo_loop_newest(_, _, _)
I2C_read_fifo_loop_newest(s, n, samples) ==
    IF n <= 0 THEN [s |-> s, samples |-> samples]
    ELSE I2C_read_fifo_loop_newest(
             [s EXCEPT !.fifo_buffer = SubSeq(@, 1, Len(@) - 1)], n - 1,
             Append(samples, unpack_sample(s.fifo_buffer[Len(s.fifo_buffer)])))

I2C_read_fifo_samples_newest_first(s, sample_count) ==
    LET r == I2C_read_fifo_loop_newest(s, Min(sample_count, Len(s.fifo_buffer)),
                                       << >>)
    IN  [s |-> I2C_update_fifo_pointers(r.s), samples |-> r.samples]

I2C_read_fifo_samples(s, sample_count) ==
    LET r == I2C_read_fifo_loop(s, Min(sample_count, Len(s.fifo_buffer)), << >>)
    IN  [s |-> I2C_update_fifo_pointers(r.s), samples |-> r.samples]

I2C_get_device_status(s) ==
    [ fifo_samples |-> Len(s.fifo_buffer),
      sample_rate |-> IF s.sample_rate = UNSET THEN 100 ELSE s.sample_rate,
      averaging_samples |->
          IF s.averaging_samples = UNSET THEN 1 ELSE s.averaging_samples,
      fifo_rollover |-> IF s.fifo_rollover = UNSET THEN 1 ELSE s.fifo_rollover,
      read_operations |-> s.read_operations,
      write_operations |-> s.write_operations,
      error_count |-> s.errors,
      operating_mode |-> And(s.registers[REG_MODE_CONFIG], 7),
      power_state |-> IF And(s.registers[REG_MODE_CONFIG], 128) # 0
                      THEN "shutdown" ELSE "active" ]

I2C_set_bus_availability(s, available) ==
    [s EXCEPT !.i2c_bus_available = available]

(***************************************************************************)
(* class MAX30102Device                                                    *)
(***************************************************************************)
Dev_fifo_size == 32

Dev_update_fifo_pointers(s) ==
    LET samples_in_fifo == Len(s.fifo_buffer)
        r1 == [s.registers EXCEPT
                 ![REG_FIFO_WR_PTR] = (samples_in_fifo * 6) % (Dev_fifo_size * 6)]
    IN  [s EXCEPT !.registers =
            [r1 EXCEPT ![REG_INTR_STATUS_1] =
                IF samples_in_fifo > 0
                THEN Or(r1[REG_INTR_STATUS_1], 16)
                ELSE AndNot(r1[REG_INTR_STATUS_1], 16)]]

\* __init__ followed by initialize_device
Dev_init ==
    Dev_update_fifo_pointers(
        [ registers |-> DEFAULT_REGISTER_VALUES,
          fifo_buffer |-> << >>,
          sample_count |-> 0,
          power_on |-> TRUE,
          reset_pending |-> FALSE,
          averaging |-> UNSET,
          fifo_rollover |-> UNSET ])

Dev_update_fifo_config(s, config) ==
    [s EXCEPT !.averaging = averaging_map_get(And(Shr(config, 5), 7)),
              !.fifo_rollover = IF And(config, 16) # 0 THEN 1 ELSE 0]

Dev_handle_reset(s) ==
    LET s1 == [s EXCEPT !.registers = DEFAULT_REGISTER_VALUES,
                        !.fifo_buffer = << >>,
                        !.sample_count = 0]
    IN  [Dev_update_fifo_pointers(s1) EXCEPT !.reset_pending = TRUE]

\* lines 55-56: the shutdown bit of a mode-config write
Dev_mode_power(s, value) ==
    IF And(value, 128) # 0
    THEN [s EXCEPT !.power_on = ~(And(value, 128) # 0)]
    ELSE s

\* Dev_write_register creating the cell of an address it does not know
Dev_write_register_creates_cell(s, register, value) ==
    [s |-> [s EXCEPT !.registers = (register :> And(value, 255)) @@ @],
     ok |-> TRUE]

\* the object after the call, the status returned
Dev_write_register(s, register, value) ==
    IF register \notin DOMAIN DEFAULT_REGISTER_VALUES
    THEN [s |-> s, ok |-> FALSE]
    ELSE IF register = REG_MODE_CONFIG /\ And(value, 64) # 0
    THEN [s |-> Dev_handle_reset(s), ok |-> TRUE]
    ELSE LET s1 == CASE register = REG_MODE_CONFIG -> Dev_mode_power(s, value)
                     [] register = REG_FIFO_CONFIG ->
                           Dev_update_fifo_config(s, value)
                     [] OTHER -> s
         IN  [s |-> [s1 EXCEPT !.registers[register] = And(value, 255)],
              ok |-> TRUE]

Dev_read_fifo_data(s) ==
    LET rd_ptr == s.registers[REG_FIFO_RD_PTR]
        wr_ptr == s.registers[REG_FIFO_WR_PTR]
        sample_index == (rd_ptr \div 6) % Dev_fifo_size
        byte_index == rd_ptr % 6
    IN  IF s.fifo_buffer = << >> THEN [s |-> s, value |-> 0]
        ELSE IF rd_ptr = wr_ptr /\ s.registers[REG_OVF_COUNTER] = 0
        THEN [s |-> s, value |-> 0]
        ELSE IF sample_index < Len(s.fifo_buffer)
        THEN [s |-> [s EXCEPT !.registers[REG_FIFO_RD_PTR] =
                                 (rd_ptr + 1) % (Dev_fifo_size * 6)],
              value |-> s.fifo_buffer[sample_index + 1][byte_index + 1]]
        ELSE [s |-> s, value |-> 0]

\* the object after the call, whether a value was returned (None: FALSE), the value
Dev_read_register(s, register) ==
    IF register = REG_FIFO_DATA
    THEN LET r == Dev_read_fifo_data(s)
         IN  [s |-> r.s, ok |-> TRUE, value |-> r.value]
    ELSE IF register \notin DOMAIN s.registers
    THEN [s |-> s, ok |-> FALSE, value |-> 0]
    ELSE [s |-> s, ok |-> TRUE, value |-> s.registers[register]]

\* the loop of read_fifo_burst with n iterations left
RECURSIVE Dev_read_fifo_burst_loop(_, _, _)
Dev_read_fifo_burst_loop(s, n, data) ==
    IF n <= 0 THEN [s |-> s, data |-> data]
    ELSE IF s.fifo_buffer # << >>
    THEN Dev_read_fifo_burst_loop(
             Dev_update_fifo_pointers([s EXCEPT !.fifo_buffer = Tail(@)]),
             n - 1, data \o Head(s.fifo_buffer))
    ELSE Dev_read_fifo_burst_loop(s, n - 1, data)

Dev_read_fifo_burst(s, count) ==
    Dev_read_fifo_burst_loop(s, Min(count, Len(s.fifo_buffer)), << >>)

\* lines 114-118: the overflow branch of push_sample_to_fifo
Dev_push_overflow(s) ==
    IF Len(s.fifo_buffer) >= Dev_fifo_size
    THEN [s EXCEPT !.registers[REG_OVF_COUNTER] = And(@ + 1, 31),
                   !.fifo_buffer = IF s.fifo_buffer # << >> THEN Tail(@) ELSE @]
    ELSE s

Dev_push_sample_to_fifo(s, red_sample, ir_sample) ==
    LET s1 == Dev_push_overflow(s)
        s2 == [s1 EXCEPT !.fifo_buffer = Append(@, pack_sample(red_sample, ir_sample))]
        s3 == Dev_update_fifo_pointers(s2)
    IN  [s3 EXCEPT !.sample_count = @ + 1]

Dev_get_sample_rate(s) ==
    sample_rates_get(And(Shr(s.registers[REG_SPO2_CONFIG], 2), 7), 100)

Dev_get_status(s) ==
    [ power_on |-> s.power_on,
      fifo_samples |-> Len(s.fifo_buffer),
      sample_count |-> s.sample_count,
      mode |-> And(s.registers[REG_MODE_CONFIG], 7) ]

(***************************************************************************)
(* class PhysiologicalModel.  A numeric attribute holds Num(n) or, when a  *)
(* caller stored something that is no number, Str(s).  Units: heart rate   *)
(* in 1/1000 bpm, noise level and the motion-artifact attributes in        *)
(* 1/1000, every other number as it stands; the products of the factor     *)
(* tables are exact in these units.                                        *)
(***************************************************************************)
Num(n) == << "num", n >>

Str(s) == << "str", s >>

IsNum(v) == v[1] = "num"

\* int(x) of the quotient n / d, d > 0: towards zero
TruncDiv(n, d) == IF n >= 0 THEN n \div d ELSE -((-n) \div d)

\* PhysiologicalState(): the defaults of the dataclass
PhysiologicalState ==
    [ age |-> Num(30), gender |-> "male", weight_kg |-> Num(70),
      height_cm |-> Num(175), activity |-> "resting", condition |-> "normal",
      fitness_level |-> "average", heart_rate_bpm |-> Num(72000),
      spo2_percent |-> Num(98), respiratory_rate |-> Num(16),
      pulse_amplitude_red |-> Num(10000), pulse_amplitude_ir |-> Num(9500),
      baseline_red |-> Num(50000), baseline_ir |-> Num(48000),
      noise_level |-> Num(50), motion_artifact_probability |-> Num(100),
      motion_artifact_duration |-> Num(500),
      heart_rate_variability |-> "normal", pulse_rhythm |-> "regular",
      pulse_quality |-> "normal" ]

\* gender_factors.get(gender, gender_factors['male']); amplitude factor in 1/10
gender_factors_get(gender) ==
    IF gender = "female" THEN [hr_offset |-> 5, amplitude_factor |-> 9]
    ELSE [hr_offset |-> 0, amplitude_factor |-> 10]

\* activity_effects.get(activity, activity_effects['resting']); factors in 1/10
activity_effects_get(activity) ==
    CASE activity = "walking" ->
             [heart_rate_factor |-> 13, respiratory_factor |-> 15,
              amplitude_factor |-> 12, noise_factor |-> 5]
      [] activity = "running" ->
             [heart_rate_factor |-> 19, respiratory_factor |-> 20,
              amplitude_factor |-> 15, noise_factor |-> 8]
      [] activity = "sleeping" ->
             [heart_rate_factor |-> 8, respiratory_factor |-> 6,
              amplitude_factor |-> 7, noise_factor |-> 1]
      [] activity = "sex_time" ->
             [heart_rate_factor |-> 18, respiratory_factor |-> 18,
              amplitude_factor |-> 14, noise_factor |-> 6]
      [] OTHER ->
             [heart_rate_factor |-> 10, respiratory_factor |-> 10,
              amplitude_factor |-> 10, noise_factor |-> 2]

\* fitness_effects.get(fitness_level, fitness_effects['average']); factor in 1/10
fitness_effects_get(fitness_level) ==
    CASE fitness_level = "athletic" -> [hr_factor |-> 8, hrv |-> "high"]
      [] fitness_level = "sedentary" -> [hr_factor |-> 11, hrv |-> "low"]
      [] OTHER -> [hr_factor |-> 10, hrv |-> "normal"]

\* _apply_condition_effects
PM_apply_condition_effects(s) ==
    CASE s.condition = "heart_attack" ->
             [s EXCEPT !.heart_rate_bpm = Num(45000), !.spo2_percent = Num(85),
                       !.respiratory_rate = Num(8),
                       !.pulse_amplitude_red = Num(5000),
                       !.pulse_amplitude_ir = Num(4500),
                       !.noise_level = Num(100),
                       !.pulse_rhythm = "irregular", !.pulse_quality = "weak"]
      [] s.condition = "extreme_anxiety" ->
             [s EXCEPT !.heart_rate_bpm = Num(120000), !.spo2_percent = Num(95),
                       !.respiratory_rate = Num(25),
                       !.pulse_amplitude_red = Num(12000),
                       !.pulse_amplitude_ir = Num(11500),
                       !.noise_level = Num(150),
                       !.heart_rate_variability = "low"]
      [] s.condition = "shock" ->
             [s EXCEPT !.heart_rate_bpm = Num(140000), !.spo2_percent = Num(82),
                       !.respiratory_rate = Num(35),
                       !.pulse_amplitude_red = Num(3000),
                       !.pulse_amplitude_ir = Num(2800),
                       !.noise_level = Num(250),
                       !.pulse_quality = "weak"]
      [] s.condition = "fear" ->
             [s EXCEPT !.heart_rate_bpm = Num(110000), !.spo2_percent = Num(96),
                       !.respiratory_rate = Num(22),
                       !.pulse_amplitude_red = Num(11000),
                       !.pulse_amplitude_ir = Num(10500),
                       !.noise_level = Num(120),
                       !.heart_rate_variability = "very_low"]
      [] OTHER -> s

\* max(lo, min(hi, v)) on a number
Clamp(lo, hi, v) == Num(Max(lo, Min(hi, v[2])))

\* _clamp_to_physiological_ranges: the object after the call or, when max/min
\* meets a value that is no number, as it stands when the TypeError is raised
PM_clamp_to_physiological_ranges(s) ==
    IF ~IsNum(s.heart_rate_bpm) THEN [s |-> s, raised |-> TRUE]
    ELSE LET s1 == [s EXCEPT !.heart_rate_bpm = Clamp(30000, 220000, @)]
         IN
    IF ~IsNum(s1.spo2_percent) THEN [s |-> s1, raised |-> TRUE]
    ELSE LET s2 == [s1 EXCEPT !.spo2_percent = Clamp(70, 100, @)]
         IN
    IF ~IsNum(s2.respiratory_rate) THEN [s |-> s2, raised |-> TRUE]
    ELSE LET s3 == [s2 EXCEPT !.respiratory_rate = Clamp(6, 60, @)]
         IN
    IF ~IsNum(s3.pulse_amplitude_red) THEN [s |-> s3, raised |-> TRUE]
    ELSE LET s4 == [s3 EXCEPT !.pulse_amplitude_red = Clamp(1000, 20000, @)]
         IN
    IF ~IsNum(s4.pulse_amplitude_ir) THEN [s |-> s4, raised |-> TRUE]
    ELSE LET s5 == [s4 EXCEPT !.pulse_amplitude_ir = Clamp(1000, 20000, @)]
         IN
    IF ~IsNum(s5.noise_level) THEN [s |-> s5, raised |-> TRUE]
    ELSE [s |-> [s5 EXCEPT !.noise_level = Clamp(10, 1000, @)],
          raised |-> FALSE]

\* _recalculate_physiology: the object after the call or as it stands when
\* an exception is raised (arithmetic on an age that is no number)
PM_recalculate_physiology(s) ==
    IF ~IsNum(s.age) THEN [s |-> s, raised |-> TRUE]
    ELSE LET age == s.age[2]
             gender_adj == gender_factors_get(s.gender)
             activity_eff == activity_effects_get(s.activity)
             fitness_eff == fitness_effects_get(s.fitness_level)
             \* in 1/10 bpm
             base_hr == 720 - (age - 30) + 10 * gender_adj.hr_offset
             \* in 1/50
             base_rr == 800 - (age - 30)
             red == 100 * activity_eff.amplitude_factor
                        * gender_adj.amplitude_factor
             s1 == [s EXCEPT
                      !.heart_rate_bpm =
                          Num(base_hr * activity_eff.heart_rate_factor
                                      * fitness_eff.hr_factor),
                      !.respiratory_rate =
                          Num(TruncDiv(base_rr * activity_eff.respiratory_factor,
                                       500)),
                      !.heart_rate_variability = fitness_eff.hrv,
                      !.pulse_amplitude_red = Num(red),
                      !.pulse_amplitude_ir = Num(TruncDiv(red * 95, 100)),
                      !.noise_level = Num(5 * activity_eff.noise_factor)]
         IN  PM_clamp_to_physiological_ranges(PM_apply_condition_effects(s1))

\* the loop of update_parameters without the hasattr test: setattr creates
\* the attribute that the state does not have
RECURSIVE PM_setattr_loop_no_hasattr(_, _, _)
PM_setattr_loop_no_hasattr(s, parameters, keys) ==
    IF keys = << >> THEN s
    ELSE PM_setattr_loop_no_hasattr(
             (Head(keys) :> parameters[Head(keys)]) @@ s,
             parameters, Tail(keys))

\* the loop of update_parameters over the items of the dict, in the order
\* of the keys given
RECURSIVE PM_setattr_loop(_, _, _)
PM_setattr_loop(s, parameters, keys) ==
    IF keys = << >> THEN s
    ELSE PM_setattr_loop(
             IF Head(keys) \in DOMAIN s
             THEN [s EXCEPT ![Head(keys)] = parameters[Head(keys)]]
             ELSE s,
             parameters, Tail(keys))

\* update_parameters(parameters), parameters a dict given as its keys in
\* order and its values: the object after the call, the status returned
PM_update_parameters(s, parameters) ==
    LET r == PM_recalculate_physiology(
                 PM_setattr_loop(s, parameters.values, parameters.keys))
    IN  [s |-> r.s, ok |-> ~r.raised]

\* reset_to_defaults
PM_reset_to_defaults == PM_recalculate_physiology(PhysiologicalState).s

\* The scenario table of config/scenarios.json: per name, the parameters
\* under 'physiological', as update_parameters takes them.
Dict(keys, values) == [keys |-> keys, values |-> values]

scenarios ==
    [ normal_resting |->
          Dict(<< "activity", "condition" >>,
               [activity |-> "resting", condition |-> "normal"]),
      walking |-> Dict(<< "activity" >>, [activity |-> "walking"]),
      running |-> Dict(<< "activity" >>, [activity |-> "running"]),
      heart_attack |-> Dict(<< "condition" >>, [condition |-> "heart_attack"]) ]

\* scenario_name.split('_')[0] for the names that hold an activity word
scenario_activity(scenario_name) ==
    CASE scenario_name = "walking" -> "walking"
      [] scenario_name = "running" -> "running"
      [] OTHER -> ""

\* set_scenario falling back to 'normal_resting' for a name that is not in
\* the table
PM_set_scenario_fallback(s, scenario_name) ==
    LET name == IF scenario_name \in DOMAIN scenarios THEN scenario_name
                ELSE "normal_resting"
        s1 == PM_update_parameters(s, scenarios[name]).s
    IN  [s |-> [s1 EXCEPT !.condition = name], ok |-> TRUE]

\* set_scenario(scenario_name): the object after the call, the status returned
PM_set_scenario(s, scenario_name) ==
    IF scenario_name \notin DOMAIN scenarios THEN [s |-> s, ok |-> FALSE]
    ELSE LET s1 == PM_update_parameters(s, scenarios[scenario_name]).s
             s2 == [s1 EXCEPT !.condition = scenario_name]
         IN  [s |-> IF scenario_activity(scenario_name) # ""
                    THEN [s2 EXCEPT !.activity =
                                        scenario_activity(scenario_name)]
                    ELSE s2,
              ok |-> TRUE]

(***************************************************************************)
(* The state.  One peripheral object is driven at a time: "target" names   *)
(* the class of the object under test (both classes offer the same         *)
(* operations; the other object stays as constructed).                     *)
(*   i2c       the I2CProtocolSimulator object                             *)
(*   max30102  the MAX30102Device object                                   *)
(*   last      the last call made: its name, arguments and result          *)
(*   pushes    how many samples were pushed since construction or the last *)
(*             reset; the k-th push (k = 0, 1, ...) is given SampleIn(k)   *)
(*   only_pushes  whether nothing but pushes was called since construction *)
(*             or the last reset                                           *)
(*   given     the (red, infrared) pair handed to the last push of a       *)
(*             chosen value (PushValue)                                    *)
(* The TCPServer object, its threads and its sockets:                      *)
(*   running, clients, lock, server_socket   the attributes of TCPServer   *)
(*             (lock: the thread that holds it, or "none")                 *)
(*   data_gen  how many data points the DataGenerator has produced         *)
(*   sockets   per client connection: where it stands, whether the peer    *)
(*             has gone, how often close() was called on it and what was   *)
(*             sent on it                                                  *)
(*   accept_thread, broadcast_thread, main_thread   each thread's position *)
(*             and local variables                                         *)
(*   tick      the send pass of the current broadcast iteration: the       *)
(*             connection list and close counts when the pass began, what  *)
(*             was delivered and which sends failed                        *)
(*   physio_model   the PhysiologicalModel object (its state attribute)    *)
(*   handler_thread   the call of handle_client_message in progress        *)
(***************************************************************************)
VARIABLES target, i2c, max30102, last, pushes, only_pushes, given,
          running, clients, lock, server_socket, data_gen, sockets,
          accept_thread, broadcast_thread, main_thread, tick,
          physio_model, handler_thread

perVars == << target, i2c, max30102, last, pushes, only_pushes, given >>

srvVars == << running, clients, lock, server_socket, data_gen, sockets,
              accept_thread, broadcast_thread, main_thread, tick >>

cmdVars == << physio_model, handler_thread >>

vars == << perVars, srvVars, cmdVars >>

\* Bounds of the model.
MaxOps == 1

MaxPushBus == 2

MaxPushFifo == 34

MaxPushRun == 66

MaxCount == 2

MaxByteReads == 2

MaxOver == 8

MaxConns == 2

MaxTicks == 2

MaxCmds == 1

\* calls of read_register(REG_FIFO_DATA) in a run of SpecCursor
MaxDataReads == 7

\* The sample given to the k-th push: distinct per k, in all four ranges of
\* the two top bits, and beyond 18 bits for every fourth one.
SampleIn(k) ==
    CASE k % 4 = 0 -> << 10000 + k, 9500 + k >>
      [] k % 4 = 1 -> << 200000 + k, 131072 + k >>
      [] k % 4 = 2 -> << 65535 + k, 262143 - k >>
      [] OTHER     -> << 262144 + 70000 + k, 1048576 + 300 + k >>

Call(op, reg, val, arg, ok, out) ==
    [op |-> op, reg |-> reg, val |-> val, arg |-> arg, ok |-> ok, out |-> out]

WithinOps(s) ==
    /\ s.read_operations <= MaxOps
    /\ s.write_operations <= MaxOps
    /\ s.errors <= MaxOps

IsReset(register, value) == register = REG_MODE_CONFIG /\ And(value, 64) # 0

\* a burst write that passes a value with the reset bit to the mode register
HasReset(start_register, values) ==
    \E i \in 1..Len(values) : IsReset(start_register + i - 1, values[i])

\* The client connections that may arrive.
Conns == 1..MaxConns

NoTick ==
    [ clients |-> << >>, closes |-> << >>, delivered |-> << >>, failed |-> {} ]

\* no call of handle_client_message in progress
NoCall ==
    [pc |-> "idle", client_socket |-> 0,
     message |-> [kind |-> "none", command |-> "",
                  parameters |-> [keys |-> << >>, values |-> << >>],
                  scenario |-> ""],
     response |-> << "none" >>, calls |-> 0]

\* TCPServer.__init__, before any thread runs and any client connects
TCPServer_init ==
    /\ running = FALSE
    /\ clients = << >>
    /\ lock = "none"
    /\ server_socket = "none"
    /\ data_gen = 0
    /\ sockets = [c \in Conns |->
                     [st |-> "idle", broken |-> FALSE, closes |-> 0,
                      received |-> << >>]]
    /\ accept_thread = [pc |-> "not_started", client_socket |-> 0]
    /\ broadcast_thread = [pc |-> "not_started", data_json |-> << >>,
                           disconnected_clients |-> << >>, i |-> 0]
    /\ main_thread = [pc |-> "constructed", i |-> 0]
    /\ tick = NoTick
    /\ physio_model = PhysiologicalState
    /\ handler_thread = NoCall

Init ==
    /\ target \in {"i2c", "dev"}
    /\ i2c = I2C_init
    /\ max30102 = Dev_init
    /\ last = Call("init", 0, 0, << >>, TRUE, << >>)
    /\ pushes = 0
    /\ only_pushes = TRUE
    /\ given = << 0, 0 >>
    /\ TCPServer_init

(***************************************************************************)
(* Calls on the I2CProtocolSimulator object.                               *)
(***************************************************************************)
I2CWriteRegister(register, value) ==
    /\ target = "i2c"
    /\ \E r \in {I2C_write_register(i2c, register, value)} :
           /\ WithinOps(r.s)
           /\ i2c' = r.s
           /\ last' = Call("write_register", register, value, << >>, r.ok, << >>)
           /\ only_pushes' = (r.ok /\ IsReset(register, value))
           /\ pushes' = IF r.ok /\ IsReset(register, value) THEN 0 ELSE pushes
    /\ UNCHANGED << given, target, max30102 >>
    /\ UNCHANGED << srvVars, cmdVars >>

I2CReadRegister(register) ==
    /\ target = "i2c"
    /\ \E r \in {I2C_read_register(i2c, register)} :
           /\ WithinOps(r.s)
           /\ i2c' = r.s
           /\ last' = Call("read_register", register, 0, << >>, r.ok,
                           IF r.ok THEN << r.value >> ELSE << >>)
    /\ only_pushes' = FALSE
    /\ UNCHANGED << given, target, max30102, pushes >>
    /\ UNCHANGED << srvVars, cmdVars >>

I2CWriteRegistersBurst(start_register, values) ==
    /\ target = "i2c"
    /\ \E r \in {I2C_write_registers_burst(i2c, start_register, values)} :
           /\ WithinOps(r.s)
           /\ i2c' = r.s
           /\ last' = Call("write_registers_burst", start_register, 0, values,
                           r.ok, << >>)
           /\ pushes' = IF r.ok /\ HasReset(start_register, values) THEN 0
                         ELSE pushes
    /\ only_pushes' = FALSE
    /\ UNCHANGED << given, target, max30102 >>
    /\ UNCHANGED << srvVars, cmdVars >>

I2CReadRegistersBurst(start_register, count) ==
    /\ target = "i2c"
    /\ \E r \in {I2C_read_registers_burst(i2c, start_register, count)} :
           /\ WithinOps(r.s)
           /\ i2c' = r.s
           /\ last' = Call("read_registers_burst", start_register, count, << >>,
                           r.ok, r.values)
    /\ only_pushes' = FALSE
    /\ UNCHANGED << given, target, max30102, pushes >>
    /\ UNCHANGED << srvVars, cmdVars >>

I2CPush(bound) ==
    /\ target = "i2c"
    /\ pushes < bound
    /\ i2c' = I2C_push_sample_to_fifo(i2c, SampleIn(pushes)[1], SampleIn(pushes)[2])
    /\ last' = Call("push_sample_to_fifo", 0, pushes, << >>, TRUE, << >>)
    /\ pushes' = pushes + 1
    /\ UNCHANGED << given, target, max30102, only_pushes >>
    /\ UNCHANGED << srvVars, cmdVars >>

I2CReadFifoSamples(sample_count) ==
    /\ target = "i2c"
    /\ \E r \in {I2C_read_fifo_samples(i2c, sample_count)} :
           /\ i2c' = r.s
           /\ last' = Call("read_fifo_samples", 0, sample_count, << >>, TRUE,
                           r.samples)
    /\ only_pushes' = FALSE
    /\ UNCHANGED << given, target, max30102, pushes >>
    /\ UNCHANGED << srvVars, cmdVars >>

I2CSetBusAvailability(available) ==
    /\ target = "i2c"
    /\ i2c' = I2C_set_bus_availability(i2c, available)
    /\ last' = Call("set_bus_availability", 0, IF available THEN 1 ELSE 0,
                    << >>, TRUE, << >>)
    /\ UNCHANGED << given, target, max30102, pushes, only_pushes >>
    /\ UNCHANGED << srvVars, cmdVars >>

(***************************************************************************)
(* Calls on the MAX30102Device object.                                     *)
(***************************************************************************)
DevWriteRegister(register, value) ==
    /\ target = "dev"
    /\ \E r \in {Dev_write_register(max30102, register, value)} :
           /\ max30102' = r.s
           /\ last' = Call("write_register", register, value, << >>, r.ok, << >>)
           /\ only_pushes' = (r.ok /\ IsReset(register, value))
           /\ pushes' = IF r.ok /\ IsReset(register, value) THEN 0 ELSE pushes
    /\ UNCHANGED << given, target, i2c >>
    /\ UNCHANGED << srvVars, cmdVars >>

DevReadRegister(register) ==
    /\ target = "dev"
    /\ \E r \in {Dev_read_register(max30102, register)} :
           /\ max30102' = r.s
           /\ last' = Call("read_register", register, 0, << >>, r.ok,
                           IF r.ok THEN << r.value >> ELSE << >>)
    /\ only_pushes' = FALSE
    /\ UNCHANGED << given, target, i2c, pushes >>
    /\ UNCHANGED << srvVars, cmdVars >>

DevReadFifoBurst(count) ==
    /\ target = "dev"
    /\ \E r \in {Dev_read_fifo_burst(max30102, count)} :
           /\ max30102' = r.s
           /\ last' = Call("read_fifo_burst", 0, count, << >>, TRUE, r.data)
    /\ only_pushes' = FALSE
    /\ UNCHANGED << given, target, i2c, pushes >>
    /\ UNCHANGED << srvVars, cmdVars >>

DevPush(bound) ==
    /\ target = "dev"
    /\ pushes < bound
    /\ max30102' = Dev_push_sample_to_fifo(max30102, SampleIn(pushes)[1],
                                           SampleIn(pushes)[2])
    /\ last' = Call("push_sample_to_fifo", 0, pushes, << >>, TRUE, << >>)
    /\ pushes' = pushes + 1
    /\ UNCHANGED << given, target, i2c, only_pushes >>
    /\ UNCHANGED << srvVars, cmdVars >>

\* push_sample_to_fifo(red_sample, ir_sample) of chosen values on the object
\* as constructed
I2CPushValue(red_sample, ir_sample) ==
    /\ target = "i2c"
    /\ last.op = "init"
    /\ i2c' = I2C_push_sample_to_fifo(i2c, red_sample, ir_sample)
    /\ last' = Call("push_value", 0, 0, << >>, TRUE, << >>)
    /\ given' = << red_sample, ir_sample >>
    /\ pushes' = pushes + 1
    /\ UNCHANGED << target, max30102, only_pushes >>
    /\ UNCHANGED << srvVars, cmdVars >>

DevPushValue(red_sample, ir_sample) ==
    /\ target = "dev"
    /\ last.op = "init"
    /\ max30102' = Dev_push_sample_to_fifo(max30102, red_sample, ir_sample)
    /\ last' = Call("push_value", 0, 0, << >>, TRUE, << >>)
    /\ given' = << red_sample, ir_sample >>
    /\ pushes' = pushes + 1
    /\ UNCHANGED << target, i2c, only_pushes >>
    /\ UNCHANGED << srvVars, cmdVars >>

(***************************************************************************)
(* class TCPServer: the main thread (start_server, stop_server), the       *)
(* thread of _accept_clients, the thread of _broadcast_data, and the       *)
(* clients.  Each action is one step of one thread between two points      *)
(* where another thread may run.                                           *)
(***************************************************************************)
\* whether sendall on the socket raises: the peer has gone, or close() was
\* called on it
SendFails(sock) == sock.broken \/ sock.closes > 0

\* the sockets after sendall(payload) on a client's socket went through
socket_sendall(socks, client, payload) ==
    [socks EXCEPT ![client].received = Append(@, payload)]

\* the sockets after close() on a client's socket
socket_close(socks, client) ==
    [socks EXCEPT ![client].closes = @ + 1]

\* list.remove dropping the head of the list whatever the element asked for
list_remove_head(list, x) == Tail(list)

\* list.remove(x): the list without the first occurrence of x
RECURSIVE list_remove(_, _)
list_remove(list, x) ==
    IF list = << >> THEN << >>
    ELSE IF Head(list) = x THEN Tail(list)
    ELSE << Head(list) >> \o list_remove(Tail(list), x)

\* generate_data_point: the n-th data point of the generator
generate_data_point(n) == << "sample", n >>

\* a message put together for each client apart
broadcast_message_per_client(data_json, client) ==
    << data_json[1], data_json[2] * (MaxConns + 1) + client >>

\* line 118: what is handed to sendall for a client
broadcast_message(data_json, client) == data_json

welcome_msg == << "welcome", 0 >>

\* start_server setting the flag before it binds
StartServer_sets_flag_first(bind_ok) ==
    /\ main_thread.pc = "constructed"
    /\ running' = TRUE
    /\ IF bind_ok
       THEN /\ server_socket' = "listening"
            /\ accept_thread' = [accept_thread EXCEPT !.pc = "while"]
            /\ broadcast_thread' = [broadcast_thread EXCEPT !.pc = "while"]
            /\ main_thread' = [main_thread EXCEPT !.pc = "serving"]
       ELSE /\ server_socket' = "unbound"
            /\ main_thread' = [main_thread EXCEPT !.pc = "start_failed"]
            /\ UNCHANGED << accept_thread, broadcast_thread >>
    /\ UNCHANGED << clients, lock, data_gen, sockets, tick >>
    /\ UNCHANGED << perVars, cmdVars >>

\* start_server (lines 42-64): with bind_ok the socket is bound and listens,
\* the flag is set, both threads are started and True is returned (the main
\* thread is "serving"); else bind raises and False is returned
\* ("start_failed")
StartServer(bind_ok) ==
    /\ main_thread.pc = "constructed"
    /\ IF bind_ok
       THEN /\ server_socket' = "listening"
            /\ running' = TRUE
            /\ accept_thread' = [accept_thread EXCEPT !.pc = "while"]
            /\ broadcast_thread' = [broadcast_thread EXCEPT !.pc = "while"]
            /\ main_thread' = [main_thread EXCEPT !.pc = "serving"]
       ELSE /\ server_socket' = "unbound"
            /\ main_thread' = [main_thread EXCEPT !.pc = "start_failed"]
            /\ UNCHANGED << running, accept_thread, broadcast_thread >>
    /\ UNCHANGED << clients, lock, data_gen, sockets, tick >>
    /\ UNCHANGED << perVars, cmdVars >>

\* stop_server, line 68
StopServer ==
    /\ main_thread.pc \in {"serving", "start_failed"}
    /\ running' = FALSE
    /\ main_thread' = [main_thread EXCEPT !.pc = "stop_socket"]
    /\ UNCHANGED << clients, lock, server_socket, data_gen, sockets,
                    accept_thread, broadcast_thread, tick >>
    /\ UNCHANGED << perVars, cmdVars >>

\* lines 69-70
StopCloseSocket ==
    /\ main_thread.pc = "stop_socket"
    /\ server_socket' = IF server_socket = "none" THEN "none" ELSE "closed"
    /\ main_thread' = [main_thread EXCEPT !.pc = "stop_acquire"]
    /\ UNCHANGED << running, clients, lock, data_gen, sockets,
                    accept_thread, broadcast_thread, tick >>
    /\ UNCHANGED << perVars, cmdVars >>

\* line 72
StopAcquire ==
    /\ main_thread.pc = "stop_acquire"
    /\ lock = "none"
    /\ lock' = "main"
    /\ main_thread' = [pc |-> "stop_clients", i |-> 1]
    /\ UNCHANGED << running, clients, server_socket, data_gen, sockets,
                    accept_thread, broadcast_thread, tick >>
    /\ UNCHANGED << perVars, cmdVars >>

\* lines 73-74, one iteration
StopCloseClient ==
    /\ main_thread.pc = "stop_clients"
    /\ main_thread.i <= Len(clients)
    /\ sockets' = socket_close(sockets, clients[main_thread.i])
    /\ main_thread' = [main_thread EXCEPT !.i = @ + 1]
    /\ UNCHANGED << running, clients, lock, server_socket, data_gen,
                    accept_thread, broadcast_thread, tick >>
    /\ UNCHANGED << perVars, cmdVars >>

\* line 75
StopClear ==
    /\ main_thread.pc = "stop_clients"
    /\ main_thread.i > Len(clients)
    /\ clients' = << >>
    /\ main_thread' = [main_thread EXCEPT !.pc = "stop_release"]
    /\ UNCHANGED << running, lock, server_socket, data_gen, sockets,
                    accept_thread, broadcast_thread, tick >>
    /\ UNCHANGED << perVars, cmdVars >>

\* the end of the with block, lines 72-75
StopRelease ==
    /\ main_thread.pc = "stop_release"
    /\ lock' = "none"
    /\ main_thread' = [main_thread EXCEPT !.pc = "stopped"]
    /\ UNCHANGED << running, clients, server_socket, data_gen, sockets,
                    accept_thread, broadcast_thread, tick >>
    /\ UNCHANGED << perVars, cmdVars >>

\* the test of line 81 taken as true whatever the flag says
AcceptWhile_ignores_flag ==
    /\ accept_thread.pc = "while"
    /\ accept_thread' = [accept_thread EXCEPT !.pc = "accept"]
    /\ UNCHANGED << running, clients, lock, server_socket, data_gen, sockets,
                    broadcast_thread, main_thread, tick >>
    /\ UNCHANGED << perVars, cmdVars >>

\* _accept_clients, line 81
AcceptWhile ==
    /\ accept_thread.pc = "while"
    /\ accept_thread' = [accept_thread EXCEPT
                            !.pc = IF running THEN "accept" ELSE "exited"]
    /\ UNCHANGED << running, clients, lock, server_socket, data_gen, sockets,
                    broadcast_thread, main_thread, tick >>
    /\ UNCHANGED << perVars, cmdVars >>

\* line 83: accept() returns the socket of the client that waited longest
AcceptConnection(c) ==
    /\ accept_thread.pc = "accept"
    /\ server_socket = "listening"
    /\ sockets[c].st = "pending"
    /\ \A d \in 1..(c - 1) : sockets[d].st # "pending"
    /\ sockets' = [sockets EXCEPT ![c].st = "accepted"]
    /\ accept_thread' = [pc |-> "acquire", client_socket |-> c]
    /\ UNCHANGED << running, clients, lock, server_socket, data_gen,
                    broadcast_thread, main_thread, tick >>
    /\ UNCHANGED << perVars, cmdVars >>

\* lines 98-99: accept() times out with no client waiting
AcceptTimeout ==
    /\ accept_thread.pc = "accept"
    /\ server_socket = "listening"
    /\ \A c \in Conns : sockets[c].st # "pending"
    /\ accept_thread' = [accept_thread EXCEPT !.pc = "while"]
    /\ UNCHANGED << running, clients, lock, server_socket, data_gen, sockets,
                    broadcast_thread, main_thread, tick >>
    /\ UNCHANGED << perVars, cmdVars >>

\* lines 100-102: accept() raises on the closed listening socket
AcceptError ==
    /\ accept_thread.pc = "accept"
    /\ server_socket # "listening"
    /\ accept_thread' = [accept_thread EXCEPT !.pc = "while"]
    /\ UNCHANGED << running, clients, lock, server_socket, data_gen, sockets,
                    broadcast_thread, main_thread, tick >>
    /\ UNCHANGED << perVars, cmdVars >>

\* line 86
AcceptAcquire ==
    /\ accept_thread.pc = "acquire"
    /\ lock = "none"
    /\ lock' = "accept"
    /\ accept_thread' = [accept_thread EXCEPT !.pc = "append"]
    /\ UNCHANGED << running, clients, server_socket, data_gen, sockets,
                    broadcast_thread, main_thread, tick >>
    /\ UNCHANGED << perVars, cmdVars >>

\* line 87 and the end of the with block
AcceptAppend ==
    /\ accept_thread.pc = "append"
    /\ clients' = Append(clients, accept_thread.client_socket)
    /\ lock' = "none"
    /\ accept_thread' = [accept_thread EXCEPT !.pc = "welcome"]
    /\ UNCHANGED << running, server_socket, data_gen, sockets,
                    broadcast_thread, main_thread, tick >>
    /\ UNCHANGED << perVars, cmdVars >>

\* lines 90-95 and _send_to_client (135-140): a send that fails is logged
AcceptWelcome ==
    /\ accept_thread.pc = "welcome"
    /\ sockets' = IF SendFails(sockets[accept_thread.client_socket])
                  THEN sockets
                  ELSE socket_sendall(sockets, accept_thread.client_socket,
                                      welcome_msg)
    /\ accept_thread' = [accept_thread EXCEPT !.pc = "while"]
    /\ UNCHANGED << running, clients, lock, server_socket, data_gen,
                    broadcast_thread, main_thread, tick >>
    /\ UNCHANGED << perVars, cmdVars >>

\* _broadcast_data, line 105
BroadcastWhile ==
    /\ broadcast_thread.pc = "while"
    /\ broadcast_thread' = [broadcast_thread EXCEPT
                               !.pc = IF running THEN "if_clients" ELSE "exited"]
    /\ UNCHANGED << running, clients, lock, server_socket, data_gen, sockets,
                    accept_thread, main_thread, tick >>
    /\ UNCHANGED << perVars, cmdVars >>

\* line 107, and the sleep of line 130 when there is no client
BroadcastIfClients ==
    /\ broadcast_thread.pc = "if_clients"
    /\ broadcast_thread' = [broadcast_thread EXCEPT
                               !.pc = IF clients # << >> THEN "generate"
                                      ELSE "while"]
    /\ UNCHANGED << running, clients, lock, server_socket, data_gen, sockets,
                    accept_thread, main_thread, tick >>
    /\ UNCHANGED << perVars, cmdVars >>

\* lines 109-112
BroadcastGenerate ==
    /\ broadcast_thread.pc = "generate"
    /\ data_gen < MaxTicks
    /\ data_gen' = data_gen + 1
    /\ broadcast_thread' = [broadcast_thread EXCEPT
                               !.pc = "acquire",
                               !.data_json = generate_data_point(data_gen + 1)]
    /\ UNCHANGED << running, clients, lock, server_socket, sockets,
                    accept_thread, main_thread, tick >>
    /\ UNCHANGED << perVars, cmdVars >>

\* lines 109-112 in the iteration that was under way when stop_server
\* cleared the flag, beyond the number of data points otherwise followed
BroadcastGenerateLast ==
    /\ broadcast_thread.pc = "generate"
    /\ data_gen >= MaxTicks
    /\ ~running
    /\ data_gen' = data_gen + 1
    /\ broadcast_thread' = [broadcast_thread EXCEPT
                               !.pc = "acquire",
                               !.data_json = generate_data_point(data_gen + 1)]
    /\ UNCHANGED << running, clients, lock, server_socket, sockets,
                    accept_thread, main_thread, tick >>
    /\ UNCHANGED << perVars, cmdVars >>

\* the control flow of a pass that turns to the removals as soon as one
\* send has failed
AfterSend_remove_at_once(i, list, disconnected) ==
    IF disconnected # << >> THEN "remove"
    ELSE IF i <= Len(list) THEN "send" ELSE "release"

\* where the thread stands after the statement before the loops of lines
\* 116 and 123: in the loop of sends while clients are left, in the loop of
\* removals while failed clients are left, else at the end of the with block
AfterSend(i, list, disconnected) ==
    IF i <= Len(list) THEN "send"
    ELSE IF disconnected # << >> THEN "remove" ELSE "release"

\* lines 114-115; the send pass begins
BroadcastAcquire ==
    /\ broadcast_thread.pc = "acquire"
    /\ lock = "none"
    /\ lock' = "broadcast"
    /\ broadcast_thread' = [broadcast_thread EXCEPT
                               !.pc = AfterSend(1, clients, << >>),
                               !.disconnected_clients = << >>,
                               !.i = 1]
    /\ tick' = [ clients |-> clients,
                 closes |-> [c \in Conns |-> sockets[c].closes],
                 delivered |-> << >>, failed |-> {} ]
    /\ UNCHANGED << running, clients, server_socket, data_gen, sockets,
                    accept_thread, main_thread >>
    /\ UNCHANGED << perVars, cmdVars >>

\* lines 116-120, one iteration
BroadcastSend ==
    /\ broadcast_thread.pc = "send"
    /\ broadcast_thread.i <= Len(clients)
    /\ \E client \in {clients[broadcast_thread.i]} :
           IF SendFails(sockets[client])
           THEN /\ broadcast_thread' =
                       [broadcast_thread EXCEPT
                           !.pc = AfterSend(broadcast_thread.i + 1, clients,
                                            << client >>),
                           !.disconnected_clients = Append(@, client),
                           !.i = @ + 1]
                /\ tick' = [tick EXCEPT !.failed = @ \cup {client}]
                /\ UNCHANGED sockets
           ELSE /\ sockets' = socket_sendall(
                                  sockets, client,
                                  broadcast_message(broadcast_thread.data_json,
                                                    client))
                /\ broadcast_thread' =
                       [broadcast_thread EXCEPT
                           !.pc = AfterSend(broadcast_thread.i + 1, clients,
                                   broadcast_thread.disconnected_clients),
                           !.i = @ + 1]
                /\ tick' = [tick EXCEPT
                               !.delivered = Append(@, << client,
                                   sockets'[client].received[
                                       Len(sockets'[client].received)] >>)]
    /\ UNCHANGED << running, clients, lock, server_socket, data_gen,
                    accept_thread, main_thread >>
    /\ UNCHANGED << perVars, cmdVars >>

\* lines 123-126, one iteration
BroadcastRemove ==
    /\ broadcast_thread.pc = "remove"
    /\ broadcast_thread.disconnected_clients # << >>
    /\ \E client \in {Head(broadcast_thread.disconnected_clients)} :
           /\ clients' = list_remove(clients, client)
           /\ sockets' = socket_close(sockets, client)
    /\ broadcast_thread' =
           [broadcast_thread EXCEPT
               !.pc = IF Tail(broadcast_thread.disconnected_clients) # << >>
                      THEN "remove" ELSE "release",
               !.disconnected_clients = Tail(@)]
    /\ UNCHANGED << running, lock, server_socket, data_gen,
                    accept_thread, main_thread, tick >>
    /\ UNCHANGED << perVars, cmdVars >>

\* the end of the with block of line 114, and the sleep of line 130
BroadcastRelease ==
    /\ broadcast_thread.pc = "release"
    /\ lock' = "none"
    /\ broadcast_thread' = [broadcast_thread EXCEPT !.pc = "while"]
    /\ tick' = NoTick
    /\ UNCHANGED << running, clients, server_socket, data_gen, sockets,
                    accept_thread, main_thread >>
    /\ UNCHANGED << perVars, cmdVars >>

\* a client connects to the listening socket (the clients are alike: they
\* are numbered in the order in which they connect)
ClientConnect(c) ==
    /\ server_socket = "listening"
    /\ sockets[c].st = "idle"
    /\ \A d \in 1..(c - 1) : sockets[d].st # "idle"
    /\ sockets' = [sockets EXCEPT ![c].st = "pending"]
    /\ UNCHANGED << running, clients, lock, server_socket, data_gen,
                    accept_thread, broadcast_thread, main_thread, tick >>
    /\ UNCHANGED << perVars, cmdVars >>

\* the peer of a connection goes away: sends on it fail from now on
ClientGone(c) ==
    /\ sockets[c].st \in {"pending", "accepted"}
    /\ ~sockets[c].broken
    /\ sockets' = [sockets EXCEPT ![c].broken = TRUE]
    /\ UNCHANGED << running, clients, lock, server_socket, data_gen,
                    accept_thread, broadcast_thread, main_thread, tick >>
    /\ UNCHANGED << perVars, cmdVars >>

(***************************************************************************)
(* SpecSrv: the server with its three threads and its clients.             *)
(***************************************************************************)
InitSrv == Init /\ target = "dev"

NextSrv ==
    \/ \E bind_ok \in BOOLEAN : StartServer(bind_ok)
    \/ StopServer
    \/ StopCloseSocket
    \/ StopAcquire
    \/ StopCloseClient
    \/ StopClear
    \/ StopRelease
    \/ AcceptWhile
    \/ \E c \in Conns : AcceptConnection(c)
    \/ AcceptTimeout
    \/ AcceptError
    \/ AcceptAcquire
    \/ AcceptAppend
    \/ AcceptWelcome
    \/ BroadcastWhile
    \/ BroadcastIfClients
    \/ BroadcastGenerate
    \/ BroadcastAcquire
    \/ BroadcastSend
    \/ BroadcastRemove
    \/ BroadcastRelease
    \/ \E c \in Conns : ClientConnect(c)
    \/ \E c \in Conns : ClientGone(c)

SpecSrv == InitSrv /\ [][NextSrv]_vars

(***************************************************************************)
(* Spec: the register file and the bus.  Every bus operation of both       *)
(* classes, on known and unknown addresses, with the bus switched on and   *)
(* off, over a FIFO of a few samples.                                      *)
(***************************************************************************)
BusWrites ==
    { << REG_MODE_CONFIG, 64 >>, << REG_MODE_CONFIG, 128 >>,
      << REG_SPO2_CONFIG, 23 >>, << REG_LED1_PA, 36 >>, << 255, 16 >> }

BusReads == { REG_LED1_PA, REG_FIFO_DATA, REG_INTR_STATUS_1, 255 }

BusBurstWrites == { << REG_LED1_PA, << 32, 48, 64 >> >>, << 255, << 1 >> >> }

BusBurstReads == { << REG_FIFO_RD_PTR, 2 >> }

BusCounts == { 1, 2 }

Next ==
    \/ \E w \in BusWrites : I2CWriteRegister(w[1], w[2])
    \/ \E r \in BusReads : I2CReadRegister(r)
    \/ \E w \in BusBurstWrites : I2CWriteRegistersBurst(w[1], w[2])
    \/ \E r \in BusBurstReads : I2CReadRegistersBurst(r[1], r[2])
    \/ I2CPush(MaxPushBus)
    \/ \E c \in BusCounts : I2CReadFifoSamples(c)
    \/ \E b \in BOOLEAN : I2CSetBusAvailability(b)
    \/ \E w \in BusWrites : DevWriteRegister(w[1], w[2])
    \/ \E r \in BusReads : DevReadRegister(r)
    \/ \E c \in BusCounts : DevReadFifoBurst(c)
    \/ DevPush(MaxPushBus)

Spec == Init /\ [][Next]_vars

(***************************************************************************)
(* SpecFifo: the FIFO of both classes filled past its capacity, with       *)
(* record reads of every count, byte reads of the data register, writes    *)
(* of FIFO registers and resets.                                           *)
(***************************************************************************)
FifoCounts == {0, MaxCount, I2C_fifo_size + 1}

FifoWrites == { << REG_MODE_CONFIG, 64 >> }

DevDataRead ==
    /\ max30102.registers[REG_FIFO_RD_PTR] < MaxByteReads
    /\ DevReadRegister(REG_FIFO_DATA)

NextFifo ==
    \/ I2CPush(MaxPushFifo)
    \/ \E c \in FifoCounts : I2CReadFifoSamples(c)
    \/ I2CReadRegister(REG_FIFO_DATA)
    \/ \E w \in FifoWrites : I2CWriteRegister(w[1], w[2])
    \/ DevPush(MaxPushFifo)
    \/ \E c \in FifoCounts : DevReadFifoBurst(c)
    \/ DevDataRead
    \/ \E w \in FifoWrites : DevWriteRegister(w[1], w[2])

SpecFifo == Init /\ [][NextFifo]_vars

(***************************************************************************)
(* SpecRun: long runs of pushes, far enough past the capacity for the      *)
(* overflow counter to wrap, from construction and from a reset.           *)
(***************************************************************************)
NextRun ==
    \/ I2CPush(MaxPushRun)
    \/ I2CWriteRegister(REG_MODE_CONFIG, 64)
    \/ DevPush(MaxPushRun)
    \/ DevWriteRegister(REG_MODE_CONFIG, 64)

SpecRun == Init /\ [][NextRun]_vars


(***************************************************************************)
(* SpecPack: one sample of every 18-bit value, and of values beyond 18     *)
(* bits and below zero, pushed into the FIFO as constructed and read back  *)
(* (as a pair by read_fifo_samples, as bytes by read_fifo_burst).          *)
(***************************************************************************)
MaxSample == Pow2(18) - 1

\* every 251st value of the 18-bit range, each single bit and each run of
\* low bits, the values just beyond 18 bits, and values far outside
PackValues ==
    { v \in 0..MaxSample : v % 251 = 0 }
    \cup { Pow2(k) : k \in 0..17 }
    \cup { Pow2(k) - 1 : k \in 0..18 }
    \cup (MaxSample..(MaxSample + MaxOver))
    \cup { -1, -70000, 524287, 1000000, 16777215, 16777216 + 5 }

\* the infrared value pushed together with red value v: the range backwards
Mirror(v) == MaxSample + MaxOver - v

NextPack ==
    \/ \E v \in PackValues : I2CPushValue(v, Mirror(v))
    \/ I2CReadFifoSamples(1)
    \/ \E v \in PackValues : DevPushValue(v, Mirror(v))
    \/ DevReadFifoBurst(1)

SpecPack == Init /\ [][NextPack]_vars


(***************************************************************************)
(* SpecRate: write_register on the SpO2-config register, with every        *)
(* sample-rate pattern next to several settings of the other bits, on a    *)
(* bus that may be made unavailable.                                       *)
(***************************************************************************)
RateValues ==
    { sr * 4 + rest : sr \in 0..7,
                      rest \in { 0, 1, 2, 3, 32 + 3, 96 + 3, 224 + 3, 256 + 3 } }

NextRate ==
    \/ \E v \in RateValues : I2CWriteRegister(REG_SPO2_CONFIG, v)
    \/ I2CSetBusAvailability(FALSE)
    \/ \E v \in RateValues : DevWriteRegister(REG_SPO2_CONFIG, v)

SpecRate == Init /\ [][NextRate]_vars


(***************************************************************************)
(* handle_client_message(client_socket, message), called by the code that  *)
(* reads a client's lines.  A message is given by what json.loads makes    *)
(* of it: kind "malformed" (JSONDecodeError), "non_object" (valid JSON     *)
(* that is no object) or "object" with its 'command', 'parameters' and     *)
(* 'scenario' entries.                                                     *)
(***************************************************************************)
Message(kind, command, parameters, scenario) ==
    [kind |-> kind, command |-> command, parameters |-> parameters,
     scenario |-> scenario]

\* a reply: its "type" and, under the names of its keys, the command
\* echoed, success, whether it has an 'error', a 'new_state', a 'status'
\* entry, and for type "error" the head of its 'message'
Response(type, command, success, error, new_state, status, message) ==
    << type, [command |-> command, success |-> success, error |-> error,
              new_state |-> new_state, status |-> status,
              message |-> message] >>

\* the else branch of the dispatch reporting success
unknown_command_response_success(command) ==
    Response("command_response", command, TRUE, FALSE, FALSE, FALSE, "")

\* lines 178-180: the else branch of the dispatch
unknown_command_response(command) ==
    Response("command_response", command, FALSE, TRUE, FALSE, FALSE, "")

\* the JSONDecodeError clause putting the model back to its defaults
invalid_json_reset(pm) ==
    [pm |-> PM_reset_to_defaults,
     response |-> Response("error", "", FALSE, FALSE, FALSE, FALSE,
                           "Invalid JSON")]

\* lines 185-189: the except clause for JSONDecodeError
invalid_json(pm) ==
    [pm |-> pm,
     response |-> Response("error", "", FALSE, FALSE, FALSE, FALSE,
                           "Invalid JSON")]

\* lines 146-181 and the except clauses 185-196: the physiological model
\* after the call and the reply handed to _send_to_client
handle_message(pm, message) ==
    CASE message.kind = "malformed" -> invalid_json(pm)
      [] message.kind = "non_object" ->
             [pm |-> pm,
              response |-> Response("error", "", FALSE, FALSE, FALSE, FALSE,
                                    "Error processing command")]
      [] OTHER ->
             CASE message.command = "set_parameters" ->
                      LET r == PM_update_parameters(pm, message.parameters)
                      IN  [pm |-> r.s,
                           response |-> Response("command_response",
                                                 message.command, r.ok, FALSE,
                                                 r.ok, FALSE, "")]
               [] message.command = "set_scenario" ->
                      LET r == PM_set_scenario(pm, message.scenario)
                      IN  [pm |-> r.s,
                           response |-> Response("command_response",
                                                 message.command, r.ok, FALSE,
                                                 r.ok, FALSE, "")]
               [] message.command = "get_status" ->
                      [pm |-> pm,
                       response |-> Response("command_response",
                                             message.command, TRUE, FALSE,
                                             FALSE, TRUE, "")]
               [] message.command = "reset" ->
                      [pm |-> PM_reset_to_defaults,
                       response |-> Response("command_response",
                                             message.command, TRUE, FALSE,
                                             TRUE, FALSE, "")]
               [] OTHER ->
                      [pm |-> pm,
                       response |-> unknown_command_response(message.command)]

\* the physiological model in the middle of the command: the assignments
\* of update_parameters (lines 126-128 of physiological_model.py, reached
\* from lines 155 and 162 of server.py) or of reset_to_defaults (line 283)
\* made, _recalculate_physiology not yet called
handle_message_assigned(pm, message) ==
    IF message.kind # "object" THEN pm
    ELSE CASE message.command = "set_parameters" ->
                  PM_setattr_loop(pm, message.parameters.values,
                                  message.parameters.keys)
           [] message.command = "set_scenario" ->
                  IF message.scenario \in DOMAIN scenarios
                  THEN PM_setattr_loop(pm, scenarios[message.scenario].values,
                                       scenarios[message.scenario].keys)
                  ELSE pm
           [] message.command = "reset" -> PhysiologicalState
           [] OTHER -> pm

\* handle_client_message is called with the socket of a client and a line
HandlerCall(c, message) ==
    /\ handler_thread.pc = "idle"
    /\ handler_thread.calls < MaxCmds
    /\ sockets[c].st = "accepted"
    /\ handler_thread' = [pc |-> "process", client_socket |-> c,
                          message |-> message, response |-> << "none" >>,
                          calls |-> handler_thread.calls + 1]
    /\ UNCHANGED << perVars, srvVars, physio_model >>

\* lines 146-181, 185-189, 191-195
HandlerProcess ==
    /\ handler_thread.pc = "process"
    /\ \E r \in {handle_message(physio_model, handler_thread.message)} :
           /\ physio_model' = r.pm
           /\ handler_thread' = [handler_thread EXCEPT
                                    !.pc = "reply", !.response = r.response]
    /\ UNCHANGED << perVars, srvVars >>

\* lines 183, 190, 196 and _send_to_client (135-140)
HandlerReply ==
    /\ handler_thread.pc = "reply"
    /\ sockets' = IF SendFails(sockets[handler_thread.client_socket])
                  THEN sockets
                  ELSE socket_sendall(sockets, handler_thread.client_socket,
                                      handler_thread.response)
    /\ handler_thread' = [handler_thread EXCEPT !.pc = "idle"]
    /\ UNCHANGED << running, clients, lock, server_socket, data_gen,
                    accept_thread, broadcast_thread, main_thread, tick >>
    /\ UNCHANGED << perVars, physio_model >>

\* the first half of HandlerProcess: the call has reached the model and the
\* model has made its assignments; another thread may run before the
\* dependent values are recalculated
HandlerAssign ==
    /\ handler_thread.pc = "process"
    /\ physio_model' = handle_message_assigned(physio_model,
                                               handler_thread.message)
    /\ handler_thread' = [handler_thread EXCEPT !.pc = "recalculate"]
    /\ UNCHANGED << perVars, srvVars >>

\* the second half of HandlerProcess: the rest of the model's method (the
\* assignments made are not undone by making them again) and the reply put
\* together
HandlerRecalculate ==
    /\ handler_thread.pc = "recalculate"
    /\ \E r \in {handle_message(physio_model, handler_thread.message)} :
           /\ physio_model' = r.pm
           /\ handler_thread' = [handler_thread EXCEPT
                                    !.pc = "reply", !.response = r.response]
    /\ UNCHANGED << perVars, srvVars >>

(***************************************************************************)
(* SpecCmd: calls of handle_client_message on a running server that        *)
(* accepts clients, whose peers may go away (the broadcast thread and      *)
(* stop_server are left out here).                                         *)
(***************************************************************************)
NoParameters == Dict(<< >>, << >>)

Messages ==
    { Message("malformed", "", NoParameters, ""),
      Message("non_object", "", NoParameters, ""),
      Message("object", "set_parameters",
              Dict(<< "activity" >>, [activity |-> "running"]), ""),
      Message("object", "set_parameters",
              Dict(<< "spo2_percent" >>, [spo2_percent |-> Str("high")]), ""),
      Message("object", "set_scenario", NoParameters, "heart_attack"),
      Message("object", "set_scenario", NoParameters, "non_existent_scenario"),
      Message("object", "get_status", NoParameters, ""),
      Message("object", "reset", NoParameters, ""),
      Message("object", "calibrate", NoParameters, ""),
      Message("object", "", NoParameters, "") }

NextCmd ==
    \/ StartServer(TRUE)
    \/ AcceptWhile
    \/ \E c \in Conns : AcceptConnection(c)
    \/ AcceptTimeout
    \/ AcceptAcquire
    \/ AcceptAppend
    \/ AcceptWelcome
    \/ \E c \in Conns : ClientConnect(c)
    \/ \E c \in Conns : ClientGone(c)
    \/ \E c \in Conns : \E message \in Messages : HandlerCall(c, message)
    \/ HandlerProcess
    \/ HandlerReply

SpecCmd == InitSrv /\ [][NextCmd]_vars

(***************************************************************************)
(* Calls on the PhysiologicalModel object.                                 *)
(***************************************************************************)
PMUpdateParameters(parameters) ==
    /\ \E r \in {PM_update_parameters(physio_model, parameters)} :
           /\ physio_model' = r.s
           /\ last' = Call("update_parameters", 0, 0, parameters.keys, r.ok,
                           << parameters.values >>)
    /\ UNCHANGED << target, i2c, max30102, pushes, only_pushes, given >>
    /\ UNCHANGED << srvVars, handler_thread >>

PMSetScenario(scenario_name) ==
    /\ \E r \in {PM_set_scenario(physio_model, scenario_name)} :
           /\ physio_model' = r.s
           /\ last' = Call("set_scenario", 0, 0, << scenario_name >>, r.ok,
                           << >>)
    /\ UNCHANGED << target, i2c, max30102, pushes, only_pushes, given >>
    /\ UNCHANGED << srvVars, handler_thread >>

PMResetToDefaults ==
    /\ physio_model' = PM_reset_to_defaults
    /\ last' = Call("reset_to_defaults", 0, 0, << >>, TRUE, << >>)
    /\ UNCHANGED << target, i2c, max30102, pushes, only_pushes, given >>
    /\ UNCHANGED << srvVars, handler_thread >>

(***************************************************************************)
(* SpecPhysio: the physiological model under update_parameters with values *)
(* within, beyond and below the ranges and with values that are no         *)
(* numbers, under set_scenario and under reset_to_defaults.                *)
(***************************************************************************)
ParamItems ==
    { << "age", Num(-3000) >>, << "age", Num(1000) >>, << "age", Str("old") >>,
      << "heart_rate_bpm", Num(500000) >>,
      << "spo2_percent", Num(200) >>, << "spo2_percent", Str("high") >>,
      << "respiratory_rate", Num(100) >>,
      << "activity", "running" >>,
      << "gender", "female" >>,
      << "fitness_level", "athletic" >>,
      << "condition", "shock" >>,
      << "no_such_attribute", Num(1) >> }

ParamDicts ==
    { Dict(<< it[1] >>, it[1] :> it[2]) : it \in ParamItems }
    \cup { Dict(<< "heart_rate_bpm", "spo2_percent", "respiratory_rate" >>,
                [heart_rate_bpm |-> Num(500000), spo2_percent |-> Num(200),
                 respiratory_rate |-> Num(100)]) }

ScenarioNames == { "running", "heart_attack", "non_existent_scenario" }

NextPhysio ==
    \/ \E parameters \in ParamDicts : PMUpdateParameters(parameters)
    \/ \E scenario_name \in ScenarioNames : PMSetScenario(scenario_name)
    \/ PMResetToDefaults

SpecPhysio == InitSrv /\ [][NextPhysio]_vars


(***************************************************************************)
(* SpecParams: update_parameters with dicts that mix attributes of the     *)
(* state with keys it does not have, between scenarios and resets.         *)
(***************************************************************************)
LenientDicts ==
    { Dict(<< "invalid_parameter", "age" >>,
           [invalid_parameter |-> Str("invalid_value"), age |-> Num(25)]),
      Dict(<< "age", "gender", "activity" >>,
           [age |-> Num(25), gender |-> "female", activity |-> "walking"]),
      Dict(<< "fitness_level", "no_such_attribute", "condition" >>,
           [fitness_level |-> "athletic", no_such_attribute |-> Num(1),
            condition |-> "shock"]),
      Dict(<< "no_such_attribute" >>, [no_such_attribute |-> Num(1)]),
      Dict(<< "heart_rate_bpm", "no_such_attribute" >>,
           [heart_rate_bpm |-> Num(150000), no_such_attribute |-> Num(1)]),
      Dict(<< "weight_kg", "height_cm", "no_such_attribute" >>,
           [weight_kg |-> Num(80), height_cm |-> Num(180),
            no_such_attribute |-> Num(1)]),
      Dict(<< "age", "no_such_attribute" >>,
           [age |-> Str("old"), no_such_attribute |-> Num(1)]) }

ParamsScenarios == { "running", "heart_attack", "non_existent_scenario" }

NextParams ==
    \/ \E parameters \in LenientDicts : PMUpdateParameters(parameters)
    \/ \E scenario_name \in ParamsScenarios : PMSetScenario(scenario_name)
    \/ PMResetToDefaults

SpecParams == InitSrv /\ [][NextParams]_vars

(***************************************************************************)
(* SpecScenario: set_scenario with names in and out of the table, called   *)
(* on the model directly and, as the set_scenario command, through         *)
(* handle_client_message on a running server with accepted clients, on a   *)
(* model that update_parameters may have changed.                          *)
(***************************************************************************)
ScenarioDicts ==
    { Dict(<< "age", "gender", "activity" >>,
           [age |-> Num(25), gender |-> "female", activity |-> "walking"]) }

ScenarioMessages ==
    { Message("object", "set_scenario", NoParameters, n) :
          n \in { "heart_attack", "non_existent_scenario", "" } }

NextScenario ==
    \/ StartServer(TRUE)
    \/ AcceptWhile
    \/ \E c \in Conns : AcceptConnection(c)
    \/ AcceptAcquire
    \/ AcceptAppend
    \/ AcceptWelcome
    \/ \E c \in Conns : ClientConnect(c)
    \/ \E c \in Conns : \E message \in ScenarioMessages : HandlerCall(c, message)
    \/ HandlerProcess
    \/ HandlerReply
    \/ \E parameters \in ScenarioDicts : PMUpdateParameters(parameters)
    \/ \E scenario_name \in ParamsScenarios : PMSetScenario(scenario_name)

SpecScenario == InitSrv /\ [][NextScenario]_vars


(***************************************************************************)
(* SpecPower: MAX30102Device.write_register on the mode register, with the *)
(* shutdown bit and the reset bit set and clear, between writes of an LED  *)
(* register and pushes.                                                    *)
(***************************************************************************)
PowerValues == { 0, 2, MODE_SPO2, 7, 128, 128 + MODE_SPO2, 64, 64 + 128,
                 256 + MODE_SPO2 }

NextPower ==
    \/ \E v \in PowerValues : DevWriteRegister(REG_MODE_CONFIG, v)
    \/ \E v \in { 36, 127 } : DevWriteRegister(REG_LED1_PA, v)
    \/ DevPush(MaxPushBus)

SpecPower == InitSrv /\ [][NextPower]_vars


(***************************************************************************)
(* SpecOps: the bus engine of I2CProtocolSimulator alone: single and burst *)
(* reads and writes over the interrupt-status register, the FIFO write     *)
(* pointer, the LED registers and an unknown address, with values wider    *)
(* than a byte, resets (single and inside a burst), pushes, record reads   *)
(* and the bus switched on and off.                                        *)
(***************************************************************************)
OpsWrites ==
    { << REG_MODE_CONFIG, 64 >>, << REG_LED1_PA, 292 >>,
      << REG_FIFO_WR_PTR, 7 >>, << 255, 16 >> }

OpsReads == { REG_INTR_STATUS_1, REG_LED1_PA, 255 }

OpsBurstWrites ==
    { << REG_LED1_PA, << 288, 48, 64 >> >>, << REG_LED1_PA, << 32, 304 >> >>,
      << REG_FIFO_WR_PTR, << 9 >> >>, << REG_FIFO_CONFIG, << 0, 64 >> >>,
      << 255, << 1, 2 >> >>, << REG_FIFO_CONFIG, << 80, 3, 23 >> >>,
      << REG_FIFO_WR_PTR, << 200 >> >> }

OpsBurstReads ==
    { << REG_INTR_STATUS_1, 2 >>, << REG_LED1_PA, 3 >>, << REG_LED1_PA, 2 >>,
      << 255, 1 >> }

InitOps == Init /\ target = "i2c"

NextOps ==
    \/ \E w \in OpsWrites : I2CWriteRegister(w[1], w[2])
    \/ \E r \in OpsReads : I2CReadRegister(r)
    \/ \E w \in OpsBurstWrites : I2CWriteRegistersBurst(w[1], w[2])
    \/ \E r \in OpsBurstReads : I2CReadRegistersBurst(r[1], r[2])
    \/ I2CPush(MaxPushBus)
    \/ I2CReadFifoSamples(1)
    \/ \E b \in BOOLEAN : I2CSetBusAvailability(b)

SpecOps == InitOps /\ [][NextOps]_vars


(***************************************************************************)
(* SpecStatus: the interrupt-status register of both classes under pushes, *)
(* record reads, reads of the status register, FIFO-config writes that set *)
(* the almost-full threshold below, at and above the number of records,    *)
(* and resets.                                                             *)
(***************************************************************************)
StatusWrites ==
    { << REG_FIFO_CONFIG, 16 >>, << REG_FIFO_CONFIG, 2 >>,
      << REG_FIFO_CONFIG, 15 >>, << REG_MODE_CONFIG, 64 >> }

StatusCounts == { 1, 2 }

NextStatus ==
    \/ I2CPush(MaxPushBus)
    \/ \E w \in StatusWrites : I2CWriteRegister(w[1], w[2])
    \/ \E c \in StatusCounts : I2CReadFifoSamples(c)
    \/ I2CReadRegister(REG_INTR_STATUS_1)
    \/ DevPush(MaxPushBus)
    \/ \E w \in StatusWrites : DevWriteRegister(w[1], w[2])
    \/ \E c \in StatusCounts : DevReadFifoBurst(c)
    \/ DevReadRegister(REG_INTR_STATUS_1)

SpecStatus == Init /\ [][NextStatus]_vars


(***************************************************************************)
(* SpecCursor: byte reads of the FIFO-data register of both classes over a *)
(* FIFO filled up to and past its capacity, with the read pointer set near *)
(* its wrap, resets and, on the bus engine, record reads that remove the   *)
(* oldest records.                                                         *)
(***************************************************************************)
\* read_register(REG_FIFO_DATA) on the bus engine, a bounded number of times
I2CDataRead ==
    /\ target = "i2c"
    /\ i2c.read_operations < MaxDataReads
    /\ \E r \in {I2C_read_register(i2c, REG_FIFO_DATA)} :
           /\ i2c' = r.s
           /\ last' = Call("read_register", REG_FIFO_DATA, 0, << >>, r.ok,
                           IF r.ok THEN << r.value >> ELSE << >>)
    /\ only_pushes' = FALSE
    /\ UNCHANGED << given, target, max30102, pushes >>
    /\ UNCHANGED << srvVars, cmdVars >>

CursorWrites == { << REG_FIFO_RD_PTR, 190 >>, << REG_MODE_CONFIG, 64 >> }

NextCursor ==
    \/ I2CPush(MaxPushFifo)
    \/ I2CDataRead
    \/ \E w \in CursorWrites : I2CWriteRegister(w[1], w[2])
    \/ I2CReadFifoSamples(1)
    \/ DevPush(MaxPushFifo)
    \/ DevReadRegister(REG_FIFO_DATA)
    \/ \E w \in CursorWrites : DevWriteRegister(w[1], w[2])

SpecCursor == Init /\ [][NextCursor]_vars


(***************************************************************************)
(* SpecOverflow: the bus engine pushed far past the capacity of its FIFO,  *)
(* with writes of the overflow-counter register and resets in between.     *)
(***************************************************************************)
OverflowWrites ==
    { << REG_OVF_COUNTER, 200 >>, << REG_OVF_COUNTER, 31 >>,
      << REG_MODE_CONFIG, 64 >> }

NextOverflow ==
    \/ I2CPush(MaxPushRun)
    \/ \E w \in OverflowWrites : I2CWriteRegister(w[1], w[2])

SpecOverflow == InitOps /\ [][NextOverflow]_vars

(***************************************************************************)
(* SpecCells: single and burst writes on the bus engine of values that do  *)
(* not fit a byte (negative, above 255) or carry reserved bits, to the     *)
(* hooked registers and to plain ones, with pushes and record reads.       *)
(***************************************************************************)
CellWrites ==
    { << REG_MODE_CONFIG, 432 >>, << REG_MODE_CONFIG, 64 >>,
      << REG_SPO2_CONFIG, 295 >>, << REG_FIFO_RD_PTR, 200 >>,
      << REG_FIFO_WR_PTR, -1 >>, << REG_LED1_PA, -1 >> }

CellBurstWrites ==
    { << REG_FIFO_WR_PTR, << 200 >> >>, << REG_MODE_CONFIG, << 432, 295 >> >>,
      << REG_LED1_PA, << -1, 300 >> >> }

NextCells ==
    \/ \E w \in CellWrites : I2CWriteRegister(w[1], w[2])
    \/ \E w \in CellBurstWrites : I2CWriteRegistersBurst(w[1], w[2])
    \/ I2CPush(MaxPushBus)
    \/ I2CReadFifoSamples(1)

SpecCells == InitOps /\ [][NextCells]_vars


(***************************************************************************)
(* SpecRace: calls of handle_client_message that change the model, made    *)
(* from a thread of their own while the accept thread and the broadcast    *)
(* thread of the running server take their steps and the peers of the      *)
(* clients may go away.                                                    *)
(***************************************************************************)
RaceMessages ==
    { Message("object", "set_parameters",
              Dict(<< "activity" >>, [activity |-> "running"]), ""),
      Message("object", "set_scenario", NoParameters, "heart_attack"),
      Message("object", "reset", NoParameters, "") }

NextRace ==
    \/ StartServer(TRUE)
    \/ AcceptWhile
    \/ \E c \in Conns : AcceptConnection(c)
    \/ AcceptTimeout
    \/ AcceptAcquire
    \/ AcceptAppend
    \/ AcceptWelcome
    \/ BroadcastWhile
    \/ BroadcastIfClients
    \/ BroadcastGenerate
    \/ BroadcastAcquire
    \/ BroadcastSend
    \/ BroadcastRemove
    \/ BroadcastRelease
    \/ \E c \in Conns : ClientConnect(c)
    \/ \E c \in Conns : ClientGone(c)
    \/ \E c \in Conns : \E message \in RaceMessages : HandlerCall(c, message)
    \/ HandlerAssign
    \/ HandlerRecalculate
    \/ HandlerReply

SpecRace == InitSrv /\ [][NextRace]_vars


(***************************************************************************)
(* SpecStop: the server started, serving clients and stopped, each thread  *)
(* taking its next step sooner or later: the threads are scheduled by the  *)
(* operating system, accept() returns within its timeout of one second     *)
(* (line 47) and the lock is handed to one of the threads that wait for    *)
(* it.  When stop_server is called is up to the caller.                    *)
(***************************************************************************)
AcceptStep ==
    \/ AcceptWhile
    \/ \E c \in Conns : AcceptConnection(c)
    \/ AcceptTimeout
    \/ AcceptError
    \/ AcceptAcquire
    \/ AcceptAppend
    \/ AcceptWelcome

BroadcastStep ==
    \/ BroadcastWhile
    \/ BroadcastIfClients
    \/ BroadcastGenerate
    \/ BroadcastGenerateLast
    \/ BroadcastAcquire
    \/ BroadcastSend
    \/ BroadcastRelease

StopStep ==
    \/ StopCloseSocket
    \/ StopAcquire
    \/ StopCloseClient
    \/ StopClear
    \/ StopRelease

NextStop ==
    \/ \E bind_ok \in BOOLEAN : StartServer(bind_ok)
    \/ StopServer
    \/ StopStep
    \/ AcceptStep
    \/ BroadcastStep
    \/ \E c \in Conns : ClientConnect(c)

SpecStop ==
    /\ InitSrv
    /\ [][NextStop]_vars
    /\ WF_vars(AcceptStep)
    /\ WF_vars(BroadcastStep)
    /\ WF_vars(StopStep)


(***************************************************************************)
(* Claims checked under Spec.                                              *)
(***************************************************************************)
BusOps ==
    { "write_register", "read_register", "write_registers_burst",
      "read_registers_burst" }

\* C1 (as claimed): once write_register(REG_MODE_CONFIG, v) with the reset
\* bit set has returned successfully on the I2CProtocolSimulator, every
\* register holds its default, the FIFO is empty and read_operations,
\* write_operations and errors are all 0.
C1_ResetZeroesEverything ==
    (target = "i2c" /\ last.op = "write_register" /\ last.ok
        /\ IsReset(last.reg, last.val))
    => /\ i2c.registers = DEFAULT_REGISTER_VALUES
       /\ i2c.fifo_buffer = << >>
       /\ i2c.read_operations = 0
       /\ i2c.write_operations = 0
       /\ i2c.errors = 0

\* C2: a write_register, read_register, write_registers_burst or
\* read_registers_burst call made while the bus is unavailable fails (False /
\* None) and leaves the registers (the cursors among them) and the FIFO as
\* they were.
C2_BusUnavailable ==
    [][ (target = "i2c" /\ ~i2c.i2c_bus_available /\ last'.op \in BusOps)
        => /\ ~last'.ok
           /\ last'.out = << >>
           /\ i2c'.registers = i2c.registers
           /\ i2c'.fifo_buffer = i2c.fifo_buffer
           /\ i2c'.i2c_bus_available = i2c.i2c_bus_available ]_vars

\* C2's case: a burst read refused on an unavailable bus, over a FIFO that
\* holds samples and a read cursor that has moved.
C2_Witness ==
    /\ target = "i2c"
    /\ ~i2c.i2c_bus_available
    /\ last.op = "read_registers_burst"
    /\ ~last.ok
    /\ i2c.fifo_buffer # << >>
    /\ i2c.registers[REG_FIFO_RD_PTR] > 0

\* C3: a single-register write to an address outside the known set returns
\* False, a single-register read of one returns None, in both classes, and the
\* register file (its addresses and every value) is as before the call.
C3_InvalidAddress ==
    [][ (/\ last'.op \in {"write_register", "read_register"}
         /\ last'.reg \notin DOMAIN (IF target = "i2c" THEN i2c.registers
                                     ELSE max30102.registers))
        => /\ ~last'.ok
           /\ last'.out = << >>
           /\ i2c'.registers = i2c.registers
           /\ max30102'.registers = max30102.registers ]_vars

\* C3's case: the device refused a write to 0xFF after its register file had
\* been changed from the defaults.
C3_Witness ==
    /\ target = "dev"
    /\ last.op = "write_register"
    /\ last.reg = 255
    /\ ~last.ok
    /\ max30102.registers # DEFAULT_REGISTER_VALUES
    /\ DOMAIN max30102.registers = DOMAIN DEFAULT_REGISTER_VALUES

\* C28: in every reachable state of either class, after single writes,
\* burst writes, reads, pushes and resets, on known and on unknown
\* addresses, the addresses present in the register file are exactly the
\* addresses of the default table.
C28_FixedAddressSet ==
    /\ DOMAIN i2c.registers = DOMAIN DEFAULT_REGISTER_VALUES
    /\ DOMAIN max30102.registers = DOMAIN DEFAULT_REGISTER_VALUES

\* C28's case: a burst write that names an unknown address has returned on
\* the bus engine
C28_Witness ==
    /\ target = "i2c"
    /\ last.op = "write_registers_burst"
    /\ last.reg \notin DOMAIN DEFAULT_REGISTER_VALUES
    /\ last.ok
    /\ i2c.write_operations = 1
    /\ 255 \notin DOMAIN i2c.registers

\* what a caller can observe of the peripheral state of the bus engine: the
\* registers, the FIFO, and the decoded configuration as get_device_status
\* reports it
I2C_observed(s) ==
    << s.registers, s.fifo_buffer, I2C_get_device_status(s).sample_rate,
       I2C_get_device_status(s).averaging_samples,
       I2C_get_device_status(s).fifo_rollover,
       I2C_get_device_status(s).power_state >>

\* the same of the device class: power, registers, FIFO, get_sample_rate()
Dev_observed(s) ==
    << s.registers, s.fifo_buffer, s.power_on, Dev_get_sample_rate(s) >>

\* C30 (as claimed): once a mode-config write with the reset bit set has
\* returned, the peripheral state (power, decoded sample rate, averaging,
\* rollover, registers, FIFO) is that of a freshly constructed instance, in
\* both classes.
C30_ResetToDefaults ==
    (last.op = "write_register" /\ last.ok /\ IsReset(last.reg, last.val)) =>
        IF target = "i2c" THEN I2C_observed(i2c) = I2C_observed(I2C_init)
        ELSE Dev_observed(max30102) = Dev_observed(Dev_init)

(***************************************************************************)
(* Claims checked under SpecFifo and SpecRun.                              *)
(***************************************************************************)
\* the FIFO of the object under test
TargetFifo == IF target = "i2c" THEN i2c.fifo_buffer ELSE max30102.fifo_buffer

TargetRegisters == IF target = "i2c" THEN i2c.registers ELSE max30102.registers

\* what reading back the k-th pushed sample is to give: its low 18 bits
Expected(k) == << SampleIn(k)[1] % 262144, SampleIn(k)[2] % 262144 >>

InRange(k) ==
    /\ SampleIn(k)[1] \in 0..262143
    /\ SampleIn(k)[2] \in 0..262143

\* C4: in every reachable state the FIFO (of either class) holds at most 32
\* records.
C4_FifoBounded ==
    /\ Len(i2c.fifo_buffer) <= 32
    /\ Len(max30102.fifo_buffer) <= 32

\* C4's case: a push onto a full FIFO has happened and the FIFO is full.
C4_Witness ==
    /\ target = "i2c"
    /\ last.op = "push_sample_to_fifo"
    /\ Len(i2c.fifo_buffer) = 32
    /\ i2c.registers[REG_OVF_COUNTER] >= 2

\* C5: after N consecutive pushes from construction or a reset (nothing else
\* called in between) the FIFO holds min(N, 32) records, the most recently
\* pushed ones in push order, and the overflow counter is max(0, N-32) mod 32.
C5_OverflowAccounting ==
    only_pushes =>
        LET N == pushes
            k == Min(N, 32)
        IN  /\ Len(TargetFifo) = k
            /\ \A j \in 1..k :
                  /\ TargetFifo[j] = pack_sample(SampleIn(N - k + j - 1)[1],
                                                 SampleIn(N - k + j - 1)[2])
                  /\ unpack_sample(TargetFifo[j]) = Expected(N - k + j - 1)
            /\ TargetRegisters[REG_OVF_COUNTER] = Max(0, N - 32) % 32

\* C5's case: 65 pushes in a row after a reset, the overflow counter wrapped.
C5_Witness ==
    /\ target = "i2c"
    /\ only_pushes
    /\ pushes = 65
    /\ i2c.write_operations = 1
    /\ i2c.registers[REG_OVF_COUNTER] = 1
    /\ Len(i2c.fifo_buffer) = 32

\* C6: read_fifo_samples(c) returns the min(c, length) oldest records, as the
\* (red, infrared) pairs that were pushed, in push order, and removes exactly
\* those; pairs pushed within 18 bits come back unchanged; a read of at least
\* the length leaves the FIFO empty (fifo_samples = 0).
C6_FifoRoundTrip ==
    [][ (target = "i2c" /\ last'.op = "read_fifo_samples")
        => LET n == Len(i2c.fifo_buffer)
               m == Min(last'.val, n)
           IN  /\ Len(last'.out) = m
               /\ \A j \in 1..m :
                     /\ last'.out[j] = Expected(pushes - n + j - 1)
                     /\ InRange(pushes - n + j - 1)
                           => last'.out[j] = SampleIn(pushes - n + j - 1)
               /\ i2c'.fifo_buffer = SubSeq(i2c.fifo_buffer, m + 1, n)
               /\ (last'.val >= n
                     => I2C_get_device_status(i2c').fifo_samples = 0) ]_vars

\* C6's case: a full FIFO that had overflowed was read out in one call.
C6_Witness ==
    /\ target = "i2c"
    /\ last.op = "read_fifo_samples"
    /\ Len(last.out) = 32
    /\ last.out[1] = SampleIn(pushes - 32)
    /\ i2c.registers[REG_OVF_COUNTER] > 0
    /\ i2c.fifo_buffer = << >>

(***************************************************************************)
(* Claims checked under SpecPack.                                          *)
(***************************************************************************)
\* the low 18 bits of the pair handed to the push
GivenLow18 == << given[1] % Pow2(18), given[2] % Pow2(18) >>

\* C7: the stored entry of a pushed pair holds, per value, bits 17-16, bits
\* 15-8 and bits 7-0, and unpacks to the low 18 bits of each value, which
\* for a value in [0, 2^18-1] is the value itself; what read_fifo_samples
\* returns for it (and what the bytes of read_fifo_burst unpack to) is that
\* pair, so that no returned value exceeds 2^18-1.
C7_PackRoundTrip ==
    /\ last.op = "push_value" =>
           /\ Len(TargetFifo) = 1
           /\ TargetFifo[1] =
                  << (given[1] \div 65536) % 4, (given[1] \div 256) % 256,
                     given[1] % 256,
                     (given[2] \div 65536) % 4, (given[2] \div 256) % 256,
                     given[2] % 256 >>
           /\ unpack_sample(TargetFifo[1]) = GivenLow18
           /\ \A j \in 1..2 :
                  given[j] \in 0..MaxSample =>
                      unpack_sample(TargetFifo[1])[j] = given[j]
    /\ (last.op = "read_fifo_samples" /\ last.out # << >>) =>
           /\ last.out = << GivenLow18 >>
           /\ \A j \in 1..2 :
                  /\ last.out[1][j] \in 0..MaxSample
                  /\ given[j] \in 0..MaxSample => last.out[1][j] = given[j]
    /\ (last.op = "read_fifo_burst" /\ last.out # << >>) =>
           /\ Len(last.out) = 6
           /\ unpack_sample(last.out) = GivenLow18

\* a red value one beyond 18 bits read back as 0, next to an infrared value
\* within 18 bits read back as it was given
C7_Witness ==
    /\ last.op = "read_fifo_samples"
    /\ given[1] = MaxSample + 1
    /\ given[2] \in 1..MaxSample
    /\ last.out = << << 0, given[2] >> >>

(***************************************************************************)
(* Claims checked under SpecRate.                                          *)
(***************************************************************************)
\* the sample rate the object reports: get_device_status()["sample_rate"],
\* get_sample_rate()
DecodedRate ==
    IF target = "i2c" THEN I2C_get_device_status(i2c).sample_rate
    ELSE Dev_get_sample_rate(max30102)

\* the rates in the order of the patterns 0..7
RateTable == << 50, 100, 200, 400, 800, 1000, 1600, 3200 >>

\* C8: after a successful write_register of the SpO2-config register, the
\* sample rate the object reports is the entry of
\* {50,100,200,400,800,1000,1600,3200} for the pattern in bits 4..2 of the
\* written value; the table lookup gives 100 for a key that is none of the
\* eight patterns (no three-bit pattern is such a key).
C8_SampleRateDecode ==
    /\ (last.op = "write_register" /\ last.reg = REG_SPO2_CONFIG /\ last.ok) =>
           DecodedRate = RateTable[((last.val \div 4) % 8) + 1]
    /\ \A b \in { -1, 8, 9, 15, 255 } : sample_rates_get(b, 100) = 100

\* the pattern 7 written next to other set bits, reported as 3200
C8_Witness ==
    /\ target = "i2c"
    /\ last.op = "write_register"
    /\ last.reg = REG_SPO2_CONFIG
    /\ last.ok
    /\ last.val = 7 * 4 + 96 + 3
    /\ I2C_get_device_status(i2c).sample_rate = 3200

(***************************************************************************)
(* Claims checked under SpecSrv.                                           *)
(***************************************************************************)
\* the connections registered when the send pass of the tick began
TickClients == { tick.clients[j] : j \in 1..Len(tick.clients) }

\* the payloads the pass has delivered to connection c
TickDeliveredTo(c) ==
    { k \in 1..Len(tick.delivered) : tick.delivered[k][1] = c }

\* the send pass of the tick has attempted every registered connection
PassAttempted == broadcast_thread.pc \in {"remove", "release"}

\* the send pass and the removals of the tick are over, the lock still held
PassOver == broadcast_thread.pc = "release"

\* C9: in a broadcast tick, whatever has been delivered so far is one and
\* the same payload, the sample generated for the tick; once the pass has
\* attempted every connection, each connection that was registered when the
\* pass began and whose send did not fail has been sent it exactly once.
C9_BroadcastFanOut ==
    /\ \A k1, k2 \in 1..Len(tick.delivered) :
           tick.delivered[k1][2] = tick.delivered[k2][2]
    /\ \A k \in 1..Len(tick.delivered) :
           /\ tick.delivered[k][2] = broadcast_thread.data_json
           /\ tick.delivered[k][2][1] = "sample"
           /\ tick.delivered[k][1] \in TickClients
    /\ PassAttempted =>
           \A c \in TickClients \ tick.failed :
               /\ Cardinality(TickDeliveredTo(c)) = 1
               /\ Cardinality({ k \in 1..Len(sockets[c].received) :
                                   sockets[c].received[k] =
                                       broadcast_thread.data_json }) = 1

\* a pass over two registered connections that delivered to both
C9_Witness ==
    /\ PassOver
    /\ Len(tick.clients) = 2
    /\ Len(tick.delivered) = 2
    /\ tick.delivered[1][1] # tick.delivered[2][1]
    /\ tick.failed = {}

\* C10: when sends failed in a broadcast tick, then at the end of the tick
\* the connection list is the list the pass began with, without exactly the
\* connections whose send failed; each of these has been closed (once, by
\* this tick); every other connection of the list has been sent the tick's
\* payload, has not been closed, and is still registered.
C10_FailureIsolation ==
    (PassOver /\ tick.failed # {}) =>
        /\ clients = SelectSeq(tick.clients, LAMBDA c : c \notin tick.failed)
        /\ \A c \in tick.failed :
               /\ c \in TickClients
               /\ sockets[c].closes = tick.closes[c] + 1
               /\ TickDeliveredTo(c) = {}
        /\ \A c \in TickClients \ tick.failed :
               /\ \E k \in TickDeliveredTo(c) :
                      tick.delivered[k][2] = broadcast_thread.data_json
               /\ sockets[c].closes = tick.closes[c]
               /\ \E j \in 1..Len(clients) : clients[j] = c

\* the first of two registered connections failed and was removed and
\* closed; the second was sent the payload and stays registered
C10_Witness ==
    /\ PassOver
    /\ tick.clients = << 1, 2 >>
    /\ tick.failed = { 1 }
    /\ clients = << 2 >>
    /\ sockets[1].closes = 1
    /\ sockets[2].closes = 0
    /\ tick.delivered = << << 2, broadcast_thread.data_json >> >>

\* stop_server has returned and both loops have left their while
ShutDown ==
    /\ main_thread.pc = "stopped"
    /\ accept_thread.pc = "exited"
    /\ broadcast_thread.pc = "exited"

\* C11 (as claimed): once stop_server has returned and the accept loop and
\* the broadcast loop have exited, running is false, the connection list is
\* empty and every connection that accept() ever returned has been closed.
C11_Shutdown ==
    ShutDown =>
        /\ running = FALSE
        /\ clients = << >>
        /\ \A c \in Conns : sockets[c].st = "accepted" => sockets[c].closes > 0

\* the threads whose next statement is a sendall on connection c
Senders(c) ==
    { th \in {"accept", "broadcast", "handler"} :
        \/ /\ th = "handler"
           /\ handler_thread.pc = "reply"
           /\ handler_thread.client_socket = c
        \/ /\ th = "accept"
           /\ accept_thread.pc = "welcome"
           /\ accept_thread.client_socket = c
        \/ /\ th = "broadcast"
           /\ broadcast_thread.pc = "send"
           /\ broadcast_thread.i <= Len(clients)
           /\ clients[broadcast_thread.i] = c }

\* the threads whose next statement is a close() of connection c
Closers(c) ==
    { th \in {"main", "broadcast"} :
        \/ /\ th = "main"
           /\ main_thread.pc = "stop_clients"
           /\ main_thread.i <= Len(clients)
           /\ clients[main_thread.i] = c
        \/ /\ th = "broadcast"
           /\ broadcast_thread.pc = "remove"
           /\ broadcast_thread.disconnected_clients # << >>
           /\ Head(broadcast_thread.disconnected_clients) = c }

\* C12 (as claimed): at no time is one thread at a send on a connection
\* while another thread is at a close of the same connection.
C12_SendCloseExclusive ==
    \A c \in Conns : Senders(c) = {} \/ Closers(c) = {}

(***************************************************************************)
(* Claims checked under SpecPhysio.                                        *)
(***************************************************************************)
\* the value is a number between lo and hi
Within(v, lo, hi) == IsNum(v) /\ lo <= v[2] /\ v[2] <= hi

\* C20 (as claimed): after every update_parameters, set_scenario or
\* reset_to_defaults, whatever was supplied, the heart rate lies in
\* [30, 220], the SpO2 in [70, 100], the respiratory rate in [6, 60] and both
\* pulse amplitudes in [1000, 20000].
C20_PhysiologicalRanges ==
    last.op \in {"update_parameters", "set_scenario", "reset_to_defaults"} =>
        /\ Within(physio_model.heart_rate_bpm, 30000, 220000)
        /\ Within(physio_model.spo2_percent, 70, 100)
        /\ Within(physio_model.respiratory_rate, 6, 60)
        /\ Within(physio_model.pulse_amplitude_red, 1000, 20000)
        /\ Within(physio_model.pulse_amplitude_ir, 1000, 20000)

(***************************************************************************)
(* Claims checked under SpecCmd.                                           *)
(***************************************************************************)
\* a step of the call of handle_client_message in progress
HandlerStep == handler_thread' # handler_thread

\* the step is the send of the call's reply: nothing changes on any other
\* connection, and on the originating one the reply is appended to what was
\* sent, or, the send failing, nothing changes
ReplySent ==
    /\ \A d \in Conns \ { handler_thread.client_socket } :
           sockets'[d] = sockets[d]
    /\ \/ sockets'[handler_thread.client_socket] =
              [sockets[handler_thread.client_socket] EXCEPT
                  !.received = Append(@, handler_thread.response)]
       \/ /\ SendFails(sockets[handler_thread.client_socket])
          /\ sockets'[handler_thread.client_socket] =
                 sockets[handler_thread.client_socket]

\* the reply the call has put together for a command: a command_response
\* with the command's name; success as the model's method returned it for
\* set_parameters and set_scenario, true for get_status and reset; for any
\* other name success false and an error
ReplyFitsCommand ==
    LET message == handler_thread.message
        reply == handler_thread'.response
    IN  message.kind = "object" =>
            /\ reply[1] = "command_response"
            /\ reply[2].command = message.command
            /\ message.command = "set_parameters" =>
                   /\ reply[2].success =
                          PM_update_parameters(physio_model,
                                               message.parameters).ok
                   /\ ~reply[2].error
            /\ message.command = "set_scenario" =>
                   /\ reply[2].success =
                          (message.scenario \in DOMAIN scenarios)
                   /\ ~reply[2].error
            /\ message.command \in {"get_status", "reset"} =>
                   reply[2].success /\ ~reply[2].error
            /\ message.command \notin {"set_parameters", "set_scenario",
                                       "get_status", "reset"} =>
                   ~reply[2].success /\ reply[2].error

\* C13: a call of handle_client_message puts its reply together without
\* sending anything, then sends that one reply, to the originating
\* connection and to no other, and returns; for a command the reply is a
\* command_response echoing the command name, with success true for
\* set_parameters, set_scenario, get_status and reset when they succeed and
\* success false with an error for any other name.
C13_CommandReply ==
    [][ HandlerStep =>
            /\ handler_thread.pc = "idle" =>
                   handler_thread'.pc = "process" /\ sockets' = sockets
            /\ handler_thread.pc = "process" =>
                   /\ handler_thread'.pc = "reply"
                   /\ sockets' = sockets
                   /\ ReplyFitsCommand
            /\ handler_thread.pc = "reply" =>
                   /\ handler_thread'.pc = "idle"
                   /\ ReplySent ]_vars

\* the reply to an unknown command has reached connection 1 and nothing of
\* it connection 2, which is registered too
C13_Witness ==
    /\ handler_thread.pc = "idle"
    /\ handler_thread.client_socket = 1
    /\ handler_thread.message.command = "calibrate"
    /\ sockets[1].received = << welcome_msg, handler_thread.response >>
    /\ handler_thread.response[2].error
    /\ sockets[2].st = "accepted"
    /\ sockets[2].received = << welcome_msg >>

\* the call in progress was given a line that is no valid JSON
Malformed == handler_thread.message.kind = "malformed"

\* C14: a call of handle_client_message with a line that is no valid JSON
\* puts an error reply together and sends it to the originating connection
\* only; in no step of the call does the connection list, a close count, a
\* connection other than the originating one, the physiological model or
\* the peripheral change.
C14_MalformedCommand ==
    [][ (HandlerStep /\ handler_thread.pc # "idle" /\ Malformed) =>
            /\ clients' = clients
            /\ physio_model' = physio_model
            /\ max30102' = max30102
            /\ \A d \in Conns :
                   /\ sockets'[d].closes = sockets[d].closes
                   /\ sockets'[d].st = sockets[d].st
            /\ handler_thread.pc = "process" =>
                   /\ sockets' = sockets
                   /\ handler_thread'.response[1] = "error"
            /\ handler_thread.pc = "reply" => ReplySent ]_vars

\* the error reply to a malformed line has reached connection 1, which is
\* still registered, next to connection 2, and not closed
C14_Witness ==
    /\ handler_thread.pc = "idle"
    /\ Malformed
    /\ handler_thread.client_socket = 1
    /\ sockets[1].received = << welcome_msg, handler_thread.response >>
    /\ handler_thread.response[1] = "error"
    /\ sockets[1].closes = 0
    /\ clients = << 1, 2 >>

(***************************************************************************)
(* Claims checked under SpecPower.                                         *)
(***************************************************************************)
\* C15 (as claimed): after MAX30102Device.write_register(REG_MODE_CONFIG, v)
\* with the reset bit clear, power_on is False if v has the shutdown bit
\* (0x80) and True if it has not.
C15_PowerManagement ==
    ( /\ last.op = "write_register"
      /\ last.reg = REG_MODE_CONFIG
      /\ last.ok
      /\ And(last.val, 64) = 0 ) =>
        max30102.power_on = (And(last.val, 128) = 0)

(***************************************************************************)
(* Claims checked under SpecOps.                                           *)
(***************************************************************************)
WriteOps == { "write_register", "write_registers_burst" }

ReadOps == { "read_register", "read_registers_burst" }

\* the step is a call of the bus engine that returned success / failure
OpSucceeds == target = "i2c" /\ last'.op \in BusOps /\ last'.ok

OpFails == target = "i2c" /\ last'.op \in BusOps /\ ~last'.ok

\* the step is a write whose value (or one of whose values) reaches the mode
\* register with the reset bit set
ResetWrite ==
    \/ last'.op = "write_register" /\ IsReset(last'.reg, last'.val)
    \/ last'.op = "write_registers_burst" /\ HasReset(last'.reg, last'.arg)

C17_ClearOnRead ==
    [][ /\ (OpSucceeds /\ last'.op = "read_register"
               /\ last'.reg = REG_INTR_STATUS_1) =>
               /\ last'.out = << i2c.registers[REG_INTR_STATUS_1] >>
               /\ i2c'.registers[REG_INTR_STATUS_1] = 0
        /\ (OpSucceeds /\ last'.op = "read_registers_burst"
               /\ last'.reg <= REG_INTR_STATUS_1
               /\ REG_INTR_STATUS_1 < last'.reg + last'.val) =>
               /\ last'.out[REG_INTR_STATUS_1 - last'.reg + 1] =
                      i2c.registers[REG_INTR_STATUS_1]
               /\ i2c'.registers[REG_INTR_STATUS_1] = 0 ]_vars

\* C18 (as claimed): in every reachable state of the I2CProtocolSimulator the
\* FIFO write-pointer register equals (number of records in the FIFO * 6)
\* mod 192.
C18_DerivedWriteCursor ==
    target = "i2c" =>
        i2c.registers[REG_FIFO_WR_PTR] =
            (Len(i2c.fifo_buffer) * 6) % (I2C_fifo_size * 6)

\* the registers that neither write_registers_burst nor read_registers_burst
\* treats specially, and that write_register stores as they are
HookedRegisters ==
    { REG_MODE_CONFIG, REG_FIFO_CONFIG, REG_FIFO_WR_PTR, REG_FIFO_RD_PTR,
      REG_SPO2_CONFIG, REG_FIFO_DATA, REG_INTR_STATUS_1 }

PlainRange(start_register, n) ==
    \A k \in 0..(n - 1) :
        /\ start_register + k \in DOMAIN DEFAULT_REGISTER_VALUES
        /\ start_register + k \notin HookedRegisters

\* C19: a successful write_registers_burst(start, values) over consecutive
\* known plain registers followed at once by
\* read_registers_burst(start, len(values)) returns the written values, each
\* masked to 8 bits, in the same order.
C19_BurstRoundTrip ==
    [][ ( /\ target = "i2c"
          /\ last.op = "write_registers_burst" /\ last.ok
          /\ PlainRange(last.reg, Len(last.arg))
          /\ last'.op = "read_registers_burst" /\ last'.ok
          /\ last'.reg = last.reg
          /\ last'.val = Len(last.arg) ) =>
            last'.out = [k \in 1..Len(last.arg) |-> And(last.arg[k], 255)] ]_vars

\* C19's case: three values, one of them wider than a byte, written in a
\* burst over the LED registers and read back in a burst
C19_Witness ==
    /\ target = "i2c"
    /\ last.op = "read_registers_burst"
    /\ last.ok
    /\ last.reg = REG_LED1_PA
    /\ last.out = << 32, 48, 64 >>
    /\ i2c.registers[REG_LED1_PA] = 32
    /\ i2c.registers[REG_LED2_PA] = 48
    /\ i2c.registers[REG_PILOT_PA] = 64
    /\ i2c.write_operations = 1
    /\ i2c.read_operations = 1

\* the addresses a burst step touches
BurstRange ==
    IF last'.op = "write_registers_burst"
    THEN { last'.reg + k : k \in 0..(Len(last'.arg) - 1) }
    ELSE { last'.reg + k : k \in 0..(last'.val - 1) }

\* C27 (as claimed): a write_registers_burst or read_registers_burst on an
\* available bus whose address range includes an address outside the known
\* set fails (False / None), as the single operations do.
C27_BurstRejectsUnknown ==
    [][ ( /\ target = "i2c"
          /\ last'.op \in { "write_registers_burst", "read_registers_burst" }
          /\ last' # last \/ i2c' # i2c
          /\ \E a \in BurstRange : a \notin DOMAIN i2c.registers ) =>
            ~last'.ok ]_vars

\* write_register(start_register + i, values[i]) for i = 0, 1, ... in turn,
\* from the i-th value on
RECURSIVE SingleWrites(_, _, _, _)
SingleWrites(s, start_register, values, i) ==
    IF i >= Len(values) THEN s
    ELSE SingleWrites(I2C_write_register(s, start_register + i, values[i + 1]).s,
                      start_register, values, i + 1)

\* the register file, the FIFO and the decoded configuration of object s
Configuration(s) ==
    << s.registers, s.fifo_buffer, s.sample_rate, s.averaging_samples,
       s.fifo_rollover >>

\* C29 (as claimed): a successful write_registers_burst(start, values) over
\* known addresses leaves the register file, the FIFO and the decoded
\* configuration (sample rate, averaging, rollover) as the calls
\* write_register(start, values[0]), write_register(start + 1, values[1]),
\* ... made in its place would.
C29_BurstSingleEquivalence ==
    [][ ( /\ target = "i2c"
          /\ last'.op = "write_registers_burst"
          /\ last' # last \/ i2c' # i2c
          /\ last'.ok
          /\ BurstRange \subseteq DOMAIN i2c.registers ) =>
            Configuration(i2c') =
                Configuration(SingleWrites(i2c, last'.reg, last'.arg, 0)) ]_vars

(***************************************************************************)
(* Claims checked under SpecParams and SpecScenario.                       *)
(***************************************************************************)
\* the attributes that _recalculate_physiology reads and never assigns
NonDerived ==
    { "age", "gender", "weight_kg", "height_cm", "activity", "condition",
      "fitness_level" }

\* the attributes that hold numbers
Numeric ==
    DOMAIN PhysiologicalState \
        { "gender", "activity", "condition", "fitness_level",
          "heart_rate_variability", "pulse_rhythm", "pulse_quality" }

\* every value given for a numeric attribute is a number
WellTyped(parameters) ==
    \A i \in 1..Len(parameters.keys) :
        parameters.keys[i] \in Numeric => IsNum(parameters.values[parameters.keys[i]])

\* update_parameters(parameters) made the step from state s to state t and
\* returned ok as the claim has it
Lenient(parameters, s, t, ok) ==
    /\ ok
    /\ DOMAIN t = DOMAIN PhysiologicalState
    /\ \A i \in 1..Len(parameters.keys) :
           parameters.keys[i] \in NonDerived =>
               t[parameters.keys[i]] = parameters.values[parameters.keys[i]]

\* every numeric attribute of the state holds a number
WellTypedState(s) == \A k \in Numeric : IsNum(s[k])

SetScenarioStep ==
    /\ HandlerStep
    /\ handler_thread.pc = "process"
    /\ handler_thread.message.kind = "object"
    /\ handler_thread.message.command = "set_scenario"

\* C22: set_scenario with a name that is not in the scenario table returns
\* False and leaves the physiological model as it was; the set_scenario
\* command with such a name is answered by a command_response with success
\* false and no new_state, and the model is as it was.
C22_UnknownScenario ==
    [][ /\ (last'.op = "set_scenario" /\ last' # last
               /\ last'.arg[1] \notin DOMAIN scenarios) =>
               /\ ~last'.ok
               /\ physio_model' = physio_model
        /\ (SetScenarioStep
               /\ handler_thread.message.scenario \notin DOMAIN scenarios) =>
               /\ physio_model' = physio_model
               /\ handler_thread'.response[1] = "command_response"
               /\ ~handler_thread'.response[2].success
               /\ ~handler_thread'.response[2].new_state ]_vars

\* C22's case: the reply to set_scenario with an unknown name has reached
\* the client, on a model that update_parameters had changed before
C22_Witness ==
    /\ handler_thread.pc = "idle"
    /\ handler_thread.message.command = "set_scenario"
    /\ handler_thread.message.scenario = "non_existent_scenario"
    /\ handler_thread.response[1] = "command_response"
    /\ ~handler_thread.response[2].success
    /\ sockets[handler_thread.client_socket].received =
           << welcome_msg, handler_thread.response >>
    /\ physio_model.age = Num(25)
    /\ physio_model.gender = "female"

(***************************************************************************)
(* Claims checked under SpecStatus.                                        *)
(***************************************************************************)
\* bit 4 of the interrupt-status register of object s
AlmostFullBit(s) == And(s.registers[REG_INTR_STATUS_1], 16) # 0

\* C23 (as claimed): after every push_sample_to_fifo on the
\* I2CProtocolSimulator bit 4 of the interrupt-status register is set if and
\* only if the FIFO length is at least the threshold in the low 4 bits of
\* the FIFO-config register.
C23_AlmostFullOnPush ==
    (target = "i2c" /\ last.op = "push_sample_to_fifo") =>
        ( AlmostFullBit(i2c) <=>
              Len(i2c.fifo_buffer) >= And(i2c.registers[REG_FIFO_CONFIG], 15) )

\* the object under test
Peripheral == IF target = "i2c" THEN i2c ELSE max30102

\* C24 (as claimed): in every reachable state of either class bit 4 of the
\* interrupt-status register is set whenever the FIFO is non-empty, and it
\* is clear when a consuming read (read_fifo_samples / read_fifo_burst that
\* returned data) has left the FIFO empty.
C24_InterruptTracksOccupancy ==
    /\ Peripheral.fifo_buffer # << >> => AlmostFullBit(Peripheral)
    /\ ( /\ last.op \in { "read_fifo_samples", "read_fifo_burst" }
         /\ last.out # << >>
         /\ Peripheral.fifo_buffer = << >> ) => ~AlmostFullBit(Peripheral)

(***************************************************************************)
(* Claims checked under SpecCursor.                                        *)
(***************************************************************************)
\* the step is a read_register(REG_FIFO_DATA) that returned a value
DataReadStep ==
    /\ last'.op = "read_register"
    /\ last'.reg = REG_FIFO_DATA
    /\ last'.ok
    /\ last' # last \/ Peripheral' # Peripheral

\* the queue of object s is logically empty
LogicallyEmpty(s) ==
    \/ s.fifo_buffer = << >>
    \/ /\ s.registers[REG_FIFO_RD_PTR] = s.registers[REG_FIFO_WR_PTR]
       /\ s.registers[REG_OVF_COUNTER] = 0

\* the read pointer of object s stands on a byte of a record that is stored
OnStoredByte(s) ==
    (s.registers[REG_FIFO_RD_PTR] \div 6) % 32 < Len(s.fifo_buffer)

\* C25: in both classes a read of the FIFO-data register changes neither the
\* FIFO contents nor the write pointer; made when the queue is logically
\* empty it returns 0 and leaves the read pointer as it was; when it returns
\* a stored byte (the queue not logically empty, the read pointer on a
\* stored record) the read pointer advances by exactly 1 modulo 192.
C25_ReadCursorStepping ==
    [][ DataReadStep =>
          /\ Peripheral'.fifo_buffer = Peripheral.fifo_buffer
          /\ Peripheral'.registers[REG_FIFO_WR_PTR] =
                 Peripheral.registers[REG_FIFO_WR_PTR]
          /\ LogicallyEmpty(Peripheral) =>
                 /\ last'.out = << 0 >>
                 /\ Peripheral'.registers[REG_FIFO_RD_PTR] =
                        Peripheral.registers[REG_FIFO_RD_PTR]
          /\ (~LogicallyEmpty(Peripheral) /\ OnStoredByte(Peripheral)) =>
                 Peripheral'.registers[REG_FIFO_RD_PTR] =
                     (Peripheral.registers[REG_FIFO_RD_PTR] + 1) % 192
          /\ Peripheral'.registers[REG_FIFO_RD_PTR] #
                 Peripheral.registers[REG_FIFO_RD_PTR] =>
                 Peripheral'.registers[REG_FIFO_RD_PTR] =
                     (Peripheral.registers[REG_FIFO_RD_PTR] + 1) % 192 ]_vars

\* C25's case: a byte read has taken the read pointer of the bus engine from
\* 191 round to 0 over a full FIFO
C25_Witness ==
    /\ target = "i2c"
    /\ last.op = "read_register"
    /\ last.reg = REG_FIFO_DATA
    /\ last.ok
    /\ Len(i2c.fifo_buffer) = 32
    /\ i2c.registers[REG_FIFO_RD_PTR] = 0
    /\ i2c.read_operations = 2
    /\ i2c.write_operations = 1
    /\ last.out = << i2c.fifo_buffer[32][6] >>

\* C26 (as claimed): whenever the FIFO of the I2CProtocolSimulator holds
\* n >= 1 records and the read pointer r is below 6n, a read of the
\* FIFO-data register returns byte (r mod 6) of the record at index
\* (r div 6).
C26_ByteAddressing ==
    [][ ( /\ target = "i2c"
          /\ DataReadStep
          /\ Len(i2c.fifo_buffer) >= 1
          /\ i2c.registers[REG_FIFO_RD_PTR] < 6 * Len(i2c.fifo_buffer) ) =>
            last'.out =
                << i2c.fifo_buffer[(i2c.registers[REG_FIFO_RD_PTR] \div 6) + 1]
                                  [(i2c.registers[REG_FIFO_RD_PTR] % 6) + 1] >>
      ]_vars

(***************************************************************************)
(* Claims checked under SpecOverflow.                                      *)
(***************************************************************************)
\* a push_sample_to_fifo on a FIFO that already holds fifo_size records
PushOntoFull ==
    /\ last'.op = "push_sample_to_fifo"
    /\ pushes' = pushes + 1
    /\ Len(i2c.fifo_buffer) >= I2C_fifo_size

\* C31 (as claimed): in every reachable state the overflow-counter register
\* holds a value in 0..31, and each push onto a full FIFO changes it to
\* (old value + 1) mod 32.
C31_OverflowCounterWidth ==
    /\ [](i2c.registers[REG_OVF_COUNTER] \in 0..31)
    /\ [][ PushOntoFull =>
             i2c'.registers[REG_OVF_COUNTER] =
                 (i2c.registers[REG_OVF_COUNTER] + 1) % 32 ]_vars

(***************************************************************************)
(* Claims checked under SpecCells.                                         *)
(***************************************************************************)
\* C39 (as claimed): in every reachable state every register cell of the
\* I2CProtocolSimulator holds an integer in 0..255, whatever integers are
\* passed to write_register or write_registers_burst; the mode-config cell
\* never has bits outside 0x8F set, the SpO2-config cell never has its low
\* two bits set after a single write, and the FIFO read and write pointer
\* cells are always below 192.
C39_EightBitCells ==
    /\ [] ( /\ \A r \in DOMAIN i2c.registers : i2c.registers[r] \in 0..255
            /\ And(i2c.registers[REG_MODE_CONFIG], 112) = 0
            /\ i2c.registers[REG_FIFO_RD_PTR] < 192
            /\ i2c.registers[REG_FIFO_WR_PTR] < 192 )
    /\ [][ ( /\ last'.op = "write_register"
             /\ last'.reg = REG_SPO2_CONFIG
             /\ last'.ok
             /\ last' # last \/ i2c' # i2c ) =>
               And(i2c'.registers[REG_SPO2_CONFIG], 3) = 0 ]_vars

(***************************************************************************)
(* Claims checked under SpecRace.                                          *)
(***************************************************************************)
\* line 109 of server.py: the broadcast thread generates a data point
GenerateStep ==
    /\ broadcast_thread.pc = "generate"
    /\ broadcast_thread'.pc = "acquire"

\* an update of the model is under way: the new field values are written
\* and the dependent values are not yet those the recalculation will give
PartiallyApplied ==
    /\ handler_thread.pc = "recalculate"
    /\ physio_model # handle_message(physio_model, handler_thread.message).pm

\* C32 (as claimed): the mutations of the physiological model made by
\* command handling (set_parameters, set_scenario, reset) exclude the
\* broadcast loop: the model does not change while the broadcast thread
\* holds the lock, and no broadcast tick generates its sample from a model
\* in which an update is only partially applied.
C32_SerializedModelAccess ==
    [][ /\ lock = "broadcast" => physio_model' = physio_model
        /\ GenerateStep => ~PartiallyApplied ]_vars

(***************************************************************************)
(* Further claims checked under SpecSrv.                                   *)
(***************************************************************************)
\* the connections the pass has attempted so far
TickAttempted ==
    tick.failed \cup { tick.delivered[k][1] : k \in 1..Len(tick.delivered) }

\* a step that takes a connection out of the list or closes one, made while
\* the broadcast thread holds the lock
RemovalStep ==
    /\ lock = "broadcast"
    /\ \/ clients' # clients
       \/ \E c \in Conns : sockets'[c].closes # sockets[c].closes

\* C33: while the send pass of a broadcast tick iterates over the
\* connection list the list is not modified; connections whose send failed
\* are removed and closed only after a send to every registered connection
\* has been attempted; at the end of the tick each of them has been closed
\* exactly once and is no longer in the list.
C33_DeferredRemoval ==
    /\ [][ broadcast_thread.pc = "send" => clients' = clients ]_vars
    /\ [] ( broadcast_thread.pc = "send" => clients = tick.clients )
    /\ [][ RemovalStep =>
             /\ broadcast_thread.pc = "remove"
             /\ broadcast_thread.i > Len(tick.clients)
             /\ TickAttempted = TickClients ]_vars
    /\ [] ( PassOver =>
              \A c \in tick.failed :
                  /\ sockets[c].closes = 1
                  /\ \A j \in 1..Len(clients) : clients[j] # c )

\* C33's case: the sends to both registered connections failed, the second
\* was attempted after the first had failed, and both were removed and
\* closed afterwards
C33_Witness ==
    /\ PassOver
    /\ tick.clients = << 1, 2 >>
    /\ tick.failed = { 1, 2 }
    /\ tick.delivered = << >>
    /\ clients = << >>
    /\ sockets[1].closes = 1
    /\ sockets[2].closes = 1

\* the broadcast thread stands between two iterations of its loop
BetweenTicks ==
    broadcast_thread.pc \in {"not_started", "while", "if_clients", "exited"}

\* C36 (as claimed): in every broadcast tick the generated sample is pushed
\* into the FIFO of the server's peripheral (self.max30102) and drained from
\* it before it is sent: by the time a tick has delivered its payload, the
\* peripheral has been pushed as many samples as were generated, and between
\* ticks its FIFO is empty.
C36_SamplesThroughFifo ==
    /\ Len(tick.delivered) > 0 => max30102.sample_count >= data_gen
    /\ BetweenTicks => max30102.fifo_buffer = << >>

\* start_server has returned False
StartFailed == main_thread.pc = "start_failed"

\* C37: when binding the listening endpoint fails, start_server returns
\* False, the running flag stays false and neither loop is started; the flag
\* becomes true only in a start_server whose bind and listen succeeded, the
\* loops are started only there, and only stop_server sets the flag back to
\* false.
C37_StartFailure ==
    /\ [] ( StartFailed =>
              /\ ~running
              /\ server_socket = "unbound"
              /\ accept_thread.pc = "not_started"
              /\ broadcast_thread.pc = "not_started" )
    /\ [][ (~running /\ running') =>
              /\ main_thread.pc = "constructed"
              /\ main_thread'.pc = "serving"
              /\ server_socket' = "listening" ]_vars
    /\ [][ ( \/ accept_thread.pc = "not_started" /\ accept_thread' # accept_thread
             \/ broadcast_thread.pc = "not_started"
                    /\ broadcast_thread' # broadcast_thread ) =>
              /\ running'
              /\ main_thread'.pc = "serving"
              /\ server_socket' = "listening" ]_vars
    /\ [][ (running /\ ~running') =>
              /\ main_thread.pc = "serving"
              /\ main_thread'.pc = "stop_socket" ]_vars

\* C37's case: the bind failed and start_server has returned False
C37_Witness ==
    /\ StartFailed
    /\ ~running
    /\ server_socket = "unbound"
    /\ accept_thread.pc = "not_started"
    /\ broadcast_thread.pc = "not_started"
    /\ clients = << >>

\* how many welcome payloads connection c has been sent
Welcomes(c) ==
    Cardinality({ k \in 1..Len(sockets[c].received) :
                     sockets[c].received[k] = welcome_msg })

\* the accept thread is done with connection c: accept() has returned it
\* and the iteration that did so is over
Welcomed(c) ==
    /\ sockets[c].st = "accepted"
    /\ ~ ( /\ accept_thread.client_socket = c
           /\ accept_thread.pc \in {"acquire", "append", "welcome"} )

\* C38 (as claimed): each accepted connection is sent exactly one welcome
\* payload (when sends to it do not fail), and under every interleaving of
\* the accept loop with the broadcast loop the welcome is the first message
\* sent to the connection, before any periodic sample.
C38_WelcomeFirst ==
    \A c \in Conns :
        /\ Len(sockets[c].received) > 0 =>
               sockets[c].received[1] = welcome_msg
        /\ Welcomes(c) <= 1
        /\ (Welcomed(c) /\ ~SendFails(sockets[c])) => Welcomes(c) = 1

\* the first conjunct of C38 left out: at most one welcome payload per
\* connection, and exactly one once the accept thread is done with a
\* connection to which sends do not fail
C38_OneWelcome ==
    \A c \in Conns :
        /\ Welcomes(c) <= 1
        /\ (Welcomed(c) /\ ~SendFails(sockets[c])) => Welcomes(c) = 1

(***************************************************************************)
(* Further claims checked under SpecRace.                                  *)
(***************************************************************************)
\* the step is the send of the welcome payload to connection c, and fails
WelcomeFails(c) ==
    /\ accept_thread.pc = "welcome"
    /\ accept_thread'.pc = "while"
    /\ accept_thread.client_socket = c
    /\ SendFails(sockets[c])

\* the step is the send of a command reply to connection c, and fails
ReplyFails(c) ==
    /\ handler_thread.pc = "reply"
    /\ handler_thread'.pc = "idle"
    /\ handler_thread.client_socket = c
    /\ SendFails(sockets[c])

\* C34 (as claimed): whenever a send to a connection fails, that connection
\* is removed from the connection list and closed: at the end of the
\* broadcast tick for a sample whose send failed, by the end of the send for
\* the welcome payload and for a command reply.
C34_SendFailureRemoves ==
    /\ [] ( PassOver =>
              \A c \in tick.failed :
                  /\ sockets[c].closes > 0
                  /\ \A j \in 1..Len(clients) : clients[j] # c )
    /\ [][ \A c \in Conns :
             (WelcomeFails(c) \/ ReplyFails(c)) =>
                 /\ sockets'[c].closes > 0
                 /\ \A j \in 1..Len(clients') : clients'[j] # c ]_vars

(***************************************************************************)
(* Claims checked under SpecStop.                                          *)
(***************************************************************************)
\* stop_server has cleared the flag (line 68)
FlagCleared == main_thread.pc \notin {"constructed", "serving", "start_failed"}

\* the loop is over, or its thread was never started
LoopOver(thread) == thread.pc \in {"exited", "not_started"}

\* no sample is appended to what any connection was sent
NoSampleSent ==
    \A c \in Conns :
        \/ sockets'[c].received = sockets[c].received
        \/ sockets'[c].received[Len(sockets'[c].received)][1] # "sample"

====
